---- MODULE Spec2Model ----
(***************************************************************************)
(* spatial-narrative: the analytics core (clustering, movement, temporal   *)
(* metrics, comparison) as state machines.                                 *)
(*                                                                         *)
(* Geometry.  Every event of the model lies on one meridian (lon = 0) at a *)
(* whole number of grid steps of latitude.  On a meridian the haversine    *)
(* formula reduces to R * |lat1 - lat2|, so with the length of one grid    *)
(* step as the unit of distance haversine_distance is |lat1 - lat2|, and   *)
(* eps, radius_m, tolerance, epsilon and threshold_m are in that unit.     *)
(* Vectors are sequences; the source's 0-based index i is At(v, i).        *)
(***************************************************************************)
EXTENDS Integers, Sequences, FiniteSets, TLC

VARIABLES
    pc,               \* control location of the running operation
    events,           \* the input slice &[Event]: records [lat, ts]
    labels,           \* Vec<i32> labels of the clustering in progress
    result,           \* the value returned by the operation
    eps,              \* DBSCAN.eps
    min_points,       \* DBSCAN.min_points
    scan_i,           \* DBSCAN::cluster: the loop variable i
    current_cluster,  \* DBSCAN::cluster: current_cluster
    seeds,            \* expand_cluster: the work-list
    processed,        \* expand_cluster: the processed set
    k,                \* KMeans.k
    max_iterations,   \* KMeans.max_iterations
    tolerance,        \* KMeans.tolerance
    centroids,        \* KMeans::cluster: centroids, each an exact fraction
    iter,             \* KMeans::cluster: iterations of the main loop so far
    trajectory,       \* Trajectory.events, sorted by Trajectory::new
    radius_m,         \* StopThreshold.radius_m
    min_duration_secs,\* StopThreshold.min_duration_secs
    start_idx,        \* detect_stops: start_idx
    stops,            \* detect_stops: the stops pushed so far
    epsilon,          \* simplify: epsilon
    stack,            \* the frames of douglas_peucker_indices, innermost last
    ret,              \* the indices the last finished call returned
    bin_size,         \* event_rate: bin_size
    events2,          \* comparison: the second event slice
    threshold_m,      \* spatial_similarity: threshold_m
    window_secs,      \* detect_bursts: window_secs
    min_events,       \* detect_bursts: min_events
    threshold_secs,   \* detect_gaps: threshold_secs
    rows,             \* density_map: rows
    cols              \* density_map: cols

dbscanVars == <<eps, min_points, scan_i, current_cluster, seeds, processed>>

kmeansVars == <<k, max_iterations, tolerance, centroids, iter>>

stopsVars == <<radius_m, min_duration_secs, start_idx, stops>>

simplifyVars == <<epsilon, stack, ret>>

compareVars == <<events2, threshold_m>>

metricsVars == <<window_secs, min_events, threshold_secs, rows, cols>>

vars == <<pc, events, labels, result, dbscanVars, kmeansVars, trajectory,
          stopsVars, simplifyVars, bin_size, compareVars, metricsVars>>

\* what the actions of one operation leave alone
nonDbscan == <<kmeansVars, trajectory, stopsVars, simplifyVars, bin_size, compareVars,
               metricsVars>>
nonKMeans == <<dbscanVars, trajectory, stopsVars, simplifyVars, bin_size, compareVars,
               metricsVars>>
nonStops == <<labels, dbscanVars, kmeansVars, simplifyVars, bin_size, compareVars,
              metricsVars>>
nonSimplify == <<labels, dbscanVars, kmeansVars, stopsVars, bin_size, compareVars,
                 metricsVars>>
nonEventRate == <<labels, dbscanVars, kmeansVars, trajectory, stopsVars, simplifyVars,
                  compareVars, metricsVars>>
nonCompare == <<labels, dbscanVars, kmeansVars, trajectory, stopsVars, simplifyVars,
                bin_size, metricsVars>>
nonMetrics == <<labels, dbscanVars, kmeansVars, trajectory, stopsVars, simplifyVars,
                bin_size, compareVars>>

(***************************************************************************)
(* Bounds of the model                                                     *)
(***************************************************************************)
\* most events in a clustering input
MaxN == 4
\* latitudes are 0..MaxLat grid steps
MaxLat == 4

Lats == 0..MaxLat
EpsValues == {0, 1, 2}
MinPointsValues == 0..3

\* KMeans::new: max_iterations 100, tolerance 1.0
DefaultMaxIterations == 100
DefaultTolerance == 1
\* k up to one more than the most events, so k > n happens
KValues == 0..(MaxN + 1)
MaxIterationsValues == {0, 1, DefaultMaxIterations}
ToleranceValues == {0, DefaultTolerance}

\* most events in a trajectory
MaxTrajN == 4
TrajLats == {0, 1, 2}
\* timestamps in milliseconds
TsValues == {0, 1000, 2000}
RadiusValues == {0, 1}
MinDurationValues == {0, 1, 2}
EpsilonValues == {-1, 0, 1}
\* frames the call stack holds before the process is killed; a terminating
\* douglas_peucker_indices on n events nests at most n - 1 calls
StackLimit == MaxTrajN + 1

\* most events in an event_rate input
MaxRateN == 3
\* the bin widths of event_rate in milliseconds.  TimeBin::Month
\* (2_629_800_000) and TimeBin::Year (31_557_600_000) are beyond the integers
\* the model checker computes with and are left out; the arithmetic on the
\* width is the same for all five.
HourMillis == 3600000
DayMillis == 86400000
WeekMillis == 604800000
TimeBins == {"Hour", "Day", "Week"}

\* most events in a detect_bursts or detect_gaps input
MaxBurstN == 4
\* timestamps in milliseconds
BurstTs == {0, 500, 1000, 2000}
\* window_secs and threshold_secs in whole seconds
WindowSecsValues == {-1, 0, 1, 2}
MinEventsValues == 0..3

\* grid dimensions of density_map
GridValues == 0..2
\* most events in the inputs of the run over every operation
MaxSmallN == 3

\* most events in each collection of a comparison
MaxCmpN == 3
CmpLats == {0, 1, 2}
\* timestamps (milliseconds) of the events of a temporal comparison
CmpTs == {0, 1000, 2000, 3000}
\* thresholds in grid steps; a negative threshold matches nothing
ThresholdValues == {-1, 0, 1}

(***************************************************************************)
(* Vectors                                                                 *)
(***************************************************************************)
At(v, i) == v[i + 1]

SetAt(v, i, x) == [v EXCEPT ![i + 1] = x]

\* 0, 1, ..., n-1 in order: what iter().enumerate() walks
Indices(n) == [j \in 1..n |-> j - 1]

Range(v) == {v[j] : j \in 1..Len(v)}

Abs(x) == IF x < 0 THEN -x ELSE x

MaxOf(S) == CHOOSE x \in S : \A y \in S : y <= x

MinOf(S) == CHOOSE x \in S : \A y \in S : x <= y

RECURSIVE SumSeq(_)
SumSeq(v) == IF v = <<>> THEN 0 ELSE Head(v) + SumSeq(Tail(v))

\* an event of the clustering inputs: Timestamp::now(), which no clustering reads
Located(lat) == [lat |-> lat, ts |-> 0]

\* Option: None, and the Some of a value the model does not compute
None == [none |-> TRUE]

Some == [none |-> FALSE]

\* two dense groups, at latitudes 0, 0, 1 and 3, 4, 4, with one event between
\* them at latitude 2, in every order of the seven events
SharedBorderInputs ==
    {v \in [1..7 -> {Located(l) : l \in 0..4}] :
        /\ Cardinality({j \in 1..7 : v[j].lat = 0}) = 2
        /\ Cardinality({j \in 1..7 : v[j].lat = 1}) = 1
        /\ Cardinality({j \in 1..7 : v[j].lat = 2}) = 1
        /\ Cardinality({j \in 1..7 : v[j].lat = 3}) = 1
        /\ Cardinality({j \in 1..7 : v[j].lat = 4}) = 2}

\* the same two groups made denser, at latitudes 0, 0, 1 and 3, 4, 4, with two
\* events between them at latitude 2, in every order of the eight events
DenseBorderInputs ==
    {v \in [1..8 -> {Located(l) : l \in 0..4}] :
        /\ Cardinality({j \in 1..8 : v[j].lat = 0}) = 2
        /\ Cardinality({j \in 1..8 : v[j].lat = 1}) = 1
        /\ Cardinality({j \in 1..8 : v[j].lat = 2}) = 2
        /\ Cardinality({j \in 1..8 : v[j].lat = 3}) = 1
        /\ Cardinality({j \in 1..8 : v[j].lat = 4}) = 2}

\* the min_points values at which the dense groups are clusters
DenseMinPointsValues == {3, 4}

ClusterInputs == UNION {[1..n -> {Located(l) : l \in Lats}] : n \in 0..MaxN}

(***************************************************************************)
(* Geodesic primitive                                                      *)
(***************************************************************************)
haversine_distance(lat1, lat2) == Abs(lat2 - lat1)

(***************************************************************************)
(* clustering.rs: helpers                                                  *)
(***************************************************************************)
\* a mean as the exact fraction sum / n; (0, 1) for no events
compute_centroid(evs) ==
    IF evs = <<>> THEN [num |-> 0, den |-> 1]
    ELSE [num |-> SumSeq([j \in 1..Len(evs) |-> evs[j].lat]), den |-> Len(evs)]

compute_bounds(evs) ==
    IF evs = <<>> THEN [min_lat |-> 0, max_lat |-> 0]
    ELSE [min_lat |-> MinOf({evs[j].lat : j \in 1..Len(evs)}),
          max_lat |-> MaxOf({evs[j].lat : j \in 1..Len(evs)})]

EmptyResult == [clusters |-> <<>>, noise |-> <<>>, labels |-> <<>>]

(***************************************************************************)
(* clustering.rs: DBSCAN                                                   *)
(***************************************************************************)
\* range_query without the `*i != point_idx` filter: a point is its own neighbour
range_query_with_self(point_idx) ==
    LET Near(j) == haversine_distance(At(events, point_idx).lat,
                                      At(events, j).lat) <= eps
    IN  SelectSeq(Indices(Len(events)), Near)

range_query(point_idx) ==
    LET Near(j) == /\ j # point_idx
                   /\ haversine_distance(At(events, point_idx).lat,
                                         At(events, j).lat) <= eps
    IN  SelectSeq(Indices(Len(events)), Near)

build_result(lbls) ==
    LET n == Len(lbls)
        max_label == IF n = 0 THEN -1 ELSE MaxOf(Range(lbls))
        num_clusters == IF max_label >= 0 THEN max_label + 1 ELSE 0
        Members(c) == LET In(j) == At(lbls, j) = c
                      IN  SelectSeq(Indices(n), In)
        EventsOf(ix) == [j \in 1..Len(ix) |-> At(events, ix[j])]
        IsNoise(j) == At(lbls, j) < 0
    IN  [clusters |-> [c \in 1..num_clusters |->
                         [id |-> c - 1,
                          event_indices |-> Members(c - 1),
                          centroid |-> compute_centroid(EventsOf(Members(c - 1))),
                          bounds |-> compute_bounds(EventsOf(Members(c - 1)))]],
         noise |-> SelectSeq(Indices(n), IsNoise),
         labels |-> lbls]

\* the conversion pass left out: provisional marks stay -2
ConvertNoise_skipped(lbls) == lbls

\* the pass that turns the provisional noise mark -2 into -1
ConvertNoise(lbls) == [j \in 1..Len(lbls) |-> IF lbls[j] = -2 THEN -1 ELSE lbls[j]]

\* only the first neighbour pushed
ExtendSeeds_first_only(sds, neighbors) ==
    IF neighbors = <<>> THEN sds ELSE Append(sds, Head(neighbors))

\* seeds.extend(neighbors)
ExtendSeeds(sds, neighbors) == sds \o neighbors

\* every visited index taken over, whatever its label
AbsorbNoise_any(lbls, current_idx, cluster_id) ==
    IF At(lbls, current_idx) # -1 THEN SetAt(lbls, current_idx, cluster_id) ELSE lbls

\* if labels[current_idx] == -2 { labels[current_idx] = cluster_id }
AbsorbNoise(lbls, current_idx, cluster_id) ==
    IF At(lbls, current_idx) = -2 THEN SetAt(lbls, current_idx, cluster_id) ELSE lbls

\* one pass of the body of `for i in 0..n`
DbscanScan ==
    /\ pc = "dbscan_scan"
    /\ scan_i < Len(events)
    /\ IF At(labels, scan_i) # -1
       THEN /\ scan_i' = scan_i + 1
            /\ UNCHANGED <<pc, labels, seeds, processed>>
       ELSE LET neighbors == range_query(scan_i)
            IN  IF Len(neighbors) < min_points
                THEN /\ labels' = SetAt(labels, scan_i, -2)
                     /\ scan_i' = scan_i + 1
                     /\ UNCHANGED <<pc, seeds, processed>>
                ELSE \* expand_cluster is entered: the seed is labelled
                     /\ labels' = SetAt(labels, scan_i, current_cluster)
                     /\ seeds' = neighbors
                     /\ processed' = {}
                     /\ pc' = "dbscan_expand"
                     /\ UNCHANGED scan_i
    /\ UNCHANGED <<events, result, eps, min_points, current_cluster, nonDbscan>>

\* one pass of `while let Some(current_idx) = seeds.pop()`
DbscanExpand ==
    /\ pc = "dbscan_expand"
    /\ seeds # <<>>
    /\ LET current_idx == seeds[Len(seeds)]
           rest == SubSeq(seeds, 1, Len(seeds) - 1)
           relabelled == AbsorbNoise(labels, current_idx, current_cluster)
       IN  IF current_idx \in processed
           THEN /\ seeds' = rest
                /\ UNCHANGED <<labels, processed>>
           ELSE /\ processed' = processed \cup {current_idx}
                /\ IF At(relabelled, current_idx) # -1
                   THEN /\ labels' = relabelled
                        /\ seeds' = rest
                   ELSE LET neighbors == range_query(current_idx)
                        IN  /\ labels' = SetAt(relabelled, current_idx, current_cluster)
                            /\ seeds' = IF Len(neighbors) >= min_points
                                        THEN ExtendSeeds(rest, neighbors)
                                        ELSE rest
    /\ UNCHANGED <<pc, events, result, eps, min_points, scan_i, current_cluster,
                   nonDbscan>>

\* the return with current_cluster += 2: every other id is left unused
DbscanExpandReturn_skip_id ==
    /\ pc = "dbscan_expand"
    /\ seeds = <<>>
    /\ current_cluster' = current_cluster + 2
    /\ scan_i' = scan_i + 1
    /\ pc' = "dbscan_scan"
    /\ UNCHANGED <<events, labels, result, eps, min_points, seeds, processed,
                   nonDbscan>>

\* seeds.pop() gives None: expand_cluster returns, current_cluster += 1
DbscanExpandReturn ==
    /\ pc = "dbscan_expand"
    /\ seeds = <<>>
    /\ current_cluster' = current_cluster + 1
    /\ scan_i' = scan_i + 1
    /\ pc' = "dbscan_scan"
    /\ UNCHANGED <<events, labels, result, eps, min_points, seeds, processed,
                   nonDbscan>>

\* the scan is over (or n = 0): noise conversion and build_result
DbscanFinish ==
    /\ pc = "dbscan_scan"
    /\ scan_i >= Len(events)
    /\ labels' = ConvertNoise(labels)
    /\ result' = IF Len(events) = 0 THEN EmptyResult ELSE build_result(labels')
    /\ pc' = "dbscan_done"
    /\ UNCHANGED <<events, eps, min_points, scan_i, current_cluster, seeds, processed,
                   nonDbscan>>

\* the state of the operations that are not running
DbscanIdle ==
    /\ eps = 0
    /\ min_points = 0
    /\ scan_i = 0
    /\ current_cluster = 0
    /\ seeds = <<>>
    /\ processed = {}

KMeansIdle ==
    /\ k = 0
    /\ max_iterations = 0
    /\ tolerance = 0
    /\ centroids = <<>>
    /\ iter = 0

StopsIdle ==
    /\ radius_m = 0
    /\ min_duration_secs = 0
    /\ start_idx = 0
    /\ stops = <<>>

SimplifyIdle ==
    /\ epsilon = 0
    /\ stack = <<>>
    /\ ret = <<>>

OthersIdle ==
    /\ bin_size = "Hour"
    /\ events2 = <<>>
    /\ threshold_m = 0

MetricsIdle ==
    /\ window_secs = 0
    /\ min_events = 0
    /\ threshold_secs = 0
    /\ rows = 0
    /\ cols = 0

DbscanInitWith(inputs, eps_values, min_points_values) ==
    /\ MetricsIdle
    /\ KMeansIdle
    /\ StopsIdle
    /\ SimplifyIdle
    /\ OthersIdle
    /\ trajectory = <<>>
    /\ pc = "dbscan_scan"
    /\ events \in inputs
    /\ eps \in eps_values
    /\ min_points \in min_points_values
    /\ labels = [j \in 1..Len(events) |-> -1]
    /\ scan_i = 0
    /\ current_cluster = 0
    /\ seeds = <<>>
    /\ processed = {}
    /\ result = EmptyResult

DbscanInitOn(inputs) == DbscanInitWith(inputs, EpsValues, MinPointsValues)

DbscanInit == DbscanInitOn(ClusterInputs \cup SharedBorderInputs)

DbscanNext == DbscanScan \/ DbscanExpand \/ DbscanExpandReturn \/ DbscanFinish

SpecDbscan == DbscanInit /\ [][DbscanNext]_vars

\* DBSCAN::new(eps, min_points).cluster(events) with eps one grid step and the
\* larger min_points, on the dense groups and on the short inputs
DbscanDenseInit ==
    DbscanInitWith(ClusterInputs \cup DenseBorderInputs, {1}, DenseMinPointsValues)

SpecDbscanDense == DbscanDenseInit /\ [][DbscanNext]_vars

(***************************************************************************)
(* clustering.rs: K-means.  A centroid is the exact fraction num / den of  *)
(* a latitude; distances to it are compared by cross-multiplication.       *)
(***************************************************************************)
\* a latitude as a fraction
Q(x) == [num |-> x, den |-> 1]

\* haversine_distance between two fractional latitudes on the meridian
haversine_q(a, b) == [num |-> Abs(a.num * b.den - b.num * a.den), den |-> a.den * b.den]

\* d1 < d2 for two distances; F64Max stands for f64::MAX
F64Max == [num |-> -1, den |-> 1]

DistLess(d1, d2) == d2 = F64Max \/ d1.num * d2.den < d2.num * d1.den

compute_centroid_from_locations(lats) ==
    IF lats = <<>> THEN [num |-> 0, den |-> 1]
    ELSE [num |-> SumSeq(lats), den |-> Len(lats)]

\* self.k.max(n) in place of self.k.min(n)
EffectiveK_max(n) == IF k < n THEN n ELSE k

\* let k = self.k.min(n)
EffectiveK(n) == IF k < n THEN k ELSE n

\* the first k events taken as seeds
InitialCentroids_first_k(n, keff) ==
    [c \in 1..keff |-> Q(At(events, c - 1).lat)]

\* idx = (i * n) / k for i in 0..k
InitialCentroids(n, keff) ==
    [c \in 1..keff |-> Q(At(events, ((c - 1) * n) \div keff).lat)]

\* the inner loop over centroids: strict "<", so the lowest index wins a tie
RECURSIVE NearestFrom(_, _, _, _, _)
NearestFrom(cs, lat, c, min_dist, min_cluster) ==
    IF c >= Len(cs) THEN min_cluster
    ELSE LET dist == haversine_q(Q(lat), At(cs, c))
         IN  IF DistLess(dist, min_dist)
             THEN NearestFrom(cs, lat, c + 1, dist, c)
             ELSE NearestFrom(cs, lat, c + 1, min_dist, min_cluster)

\* the assignment with "<=": the highest index wins a tie
RECURSIVE NearestFrom_last_tie(_, _, _, _, _)
NearestFrom_last_tie(cs, lat, c, min_dist, min_cluster) ==
    IF c >= Len(cs) THEN min_cluster
    ELSE LET dist == haversine_q(Q(lat), At(cs, c))
         IN  IF ~DistLess(min_dist, dist) \/ min_dist = F64Max
             THEN NearestFrom_last_tie(cs, lat, c + 1, dist, c)
             ELSE NearestFrom_last_tie(cs, lat, c + 1, min_dist, min_cluster)

AssignLabels(cs) ==
    [j \in 1..Len(events) |-> NearestFrom(cs, events[j].lat, 0, F64Max, 0)]

\* the latitudes of the events labelled c
ClusterPoints(lbls, c) ==
    LET In(j) == At(lbls, j) = c
        ix == SelectSeq(Indices(Len(lbls)), In)
    IN  [j \in 1..Len(ix) |-> At(events, ix[j]).lat]

\* every centroid recomputed, an empty cluster's from no locations
UpdateCentroids_reset_empty(cs, lbls) ==
    [c \in 1..Len(cs) |-> compute_centroid_from_locations(ClusterPoints(lbls, c - 1))]

\* an empty cluster keeps its centroid
UpdateCentroids(cs, lbls) ==
    [c \in 1..Len(cs) |->
        IF ClusterPoints(lbls, c - 1) = <<>> THEN cs[c]
        ELSE compute_centroid_from_locations(ClusterPoints(lbls, c - 1))]

\* some non-empty cluster's centroid moved by more than tolerance
SomeShift(cs, lbls) ==
    \E c \in 1..Len(cs) :
        /\ ClusterPoints(lbls, c - 1) # <<>>
        /\ LET shift == haversine_q(cs[c], UpdateCentroids(cs, lbls)[c])
           IN  shift.num > tolerance * shift.den

\* `for (cluster_id, centroid) in centroids...`: empty ones skipped, id = clusters.len()
RECURSIVE BuildClusters(_, _, _)
BuildClusters(cs, cluster_id, clusters) ==
    IF cluster_id >= Len(cs) THEN clusters
    ELSE LET In(j) == At(labels, j) = cluster_id
             event_indices == SelectSeq(Indices(Len(labels)), In)
             cluster_events == [j \in 1..Len(event_indices) |->
                                   At(events, event_indices[j])]
         IN  IF event_indices = <<>>
             THEN BuildClusters(cs, cluster_id + 1, clusters)
             ELSE BuildClusters(cs, cluster_id + 1,
                      Append(clusters,
                             [id |-> Len(clusters),
                              event_indices |-> event_indices,
                              centroid |-> At(cs, cluster_id),
                              bounds |-> compute_bounds(cluster_events)]))

\* the early return, or the initialisation of centroids and labels
KMeansStart ==
    /\ pc = "kmeans_start"
    /\ LET n == Len(events)
           keff == EffectiveK(n)
       IN  IF n = 0 \/ k = 0
           THEN /\ result' = EmptyResult
                /\ pc' = "kmeans_done"
                /\ UNCHANGED <<centroids, labels>>
           ELSE /\ centroids' = InitialCentroids(n, keff)
                /\ labels' = [j \in 1..n |-> 0]
                /\ pc' = "kmeans_iterate"
                /\ UNCHANGED result
    /\ UNCHANGED <<events, k, max_iterations, tolerance, iter, nonKMeans>>

\* one pass of `for _ in 0..self.max_iterations`: assignment, then update
KMeansIterate ==
    /\ pc = "kmeans_iterate"
    /\ iter < max_iterations
    /\ labels' = AssignLabels(centroids)
    /\ centroids' = UpdateCentroids(centroids, labels')
    /\ iter' = iter + 1
    /\ pc' = IF SomeShift(centroids, labels') THEN "kmeans_iterate" ELSE "kmeans_build"
    /\ UNCHANGED <<events, result, k, max_iterations, tolerance, nonKMeans>>

\* the loop ran max_iterations times without converging
KMeansExhausted ==
    /\ pc = "kmeans_iterate"
    /\ iter >= max_iterations
    /\ pc' = "kmeans_build"
    /\ UNCHANGED <<events, labels, result, kmeansVars, nonKMeans>>

\* "Build result"
KMeansBuild ==
    /\ pc = "kmeans_build"
    /\ result' = [clusters |-> BuildClusters(centroids, 0, <<>>),
                  noise |-> <<>>,
                  labels |-> labels]
    /\ pc' = "kmeans_done"
    /\ UNCHANGED <<events, labels, kmeansVars, nonKMeans>>

KMeansInitOn(inputs) ==
    /\ MetricsIdle
    /\ DbscanIdle
    /\ StopsIdle
    /\ SimplifyIdle
    /\ OthersIdle
    /\ trajectory = <<>>
    /\ pc = "kmeans_start"
    /\ events \in inputs
    /\ k \in KValues
    /\ max_iterations \in MaxIterationsValues
    /\ tolerance \in ToleranceValues
    /\ centroids = <<>>
    /\ labels = <<>>
    /\ iter = 0
    /\ result = EmptyResult

KMeansInit == KMeansInitOn(ClusterInputs)

KMeansNext == KMeansStart \/ KMeansIterate \/ KMeansExhausted \/ KMeansBuild

SpecKMeans == KMeansInit /\ [][KMeansNext]_vars

(***************************************************************************)
(* movement.rs: Trajectory                                                 *)
(***************************************************************************)
TrajectoryInputs ==
    UNION {[1..n -> [lat : TrajLats, ts : TsValues]] : n \in 0..MaxTrajN}

\* v with e put before the elements whose key equals e's: not stable
RECURSIVE InsertByTs_unstable(_, _)
InsertByTs_unstable(v, e) ==
    IF v = <<>> THEN <<e>>
    ELSE IF v[Len(v)].ts < e.ts THEN Append(v, e)
    ELSE Append(InsertByTs_unstable(SubSeq(v, 1, Len(v) - 1), e), v[Len(v)])

\* v with e put after the last element whose key is <= e's: a stable insertion
RECURSIVE InsertByTs(_, _)
InsertByTs(v, e) ==
    IF v = <<>> THEN <<e>>
    ELSE IF v[Len(v)].ts <= e.ts THEN Append(v, e)
    ELSE Append(InsertByTs(SubSeq(v, 1, Len(v) - 1), e), v[Len(v)])

\* events.sort_by_key(|e| e.timestamp.to_unix_millis()): a stable sort
RECURSIVE SortByTs(_)
SortByTs(v) ==
    IF v = <<>> THEN <<>>
    ELSE CHOOSE r \in {InsertByTs(sorted, v[Len(v)]) :
                          sorted \in {SortByTs(SubSeq(v, 1, Len(v) - 1))}} : TRUE

\* Trajectory::new
TrajectoryNew(evs) == SortByTs(evs)

(***************************************************************************)
(* movement.rs: detect_stops                                               *)
(***************************************************************************)
\* the window extended while each event is within radius_m of the one before
\* it, not of the anchor
RECURSIVE ExtendWindow_from_previous(_, _)
ExtendWindow_from_previous(anchor_idx, end_idx) ==
    IF end_idx >= Len(trajectory) THEN end_idx
    ELSE LET previous == IF end_idx > anchor_idx THEN end_idx - 1 ELSE anchor_idx
         IN  IF haversine_distance(At(trajectory, previous).lat,
                                   At(trajectory, end_idx).lat) > radius_m
             THEN end_idx
             ELSE ExtendWindow_from_previous(anchor_idx, end_idx + 1)

\* the inner `while end_idx < events.len()`: the first index at or after
\* end_idx whose event is farther than radius_m from the anchor
RECURSIVE ExtendWindow(_, _)
ExtendWindow(anchor_idx, end_idx) ==
    IF end_idx >= Len(trajectory) THEN end_idx
    ELSE IF haversine_distance(At(trajectory, anchor_idx).lat,
                               At(trajectory, end_idx).lat) > radius_m
         THEN end_idx
         ELSE ExtendWindow(anchor_idx, end_idx + 1)

\* the milliseconds compared with the threshold in seconds, the / 1000.0 left out
DurationMeets_unscaled(millis) == millis >= min_duration_secs

\* duration_secs >= threshold.min_duration_secs, duration_secs = millis / 1000.0
DurationMeets(millis) == millis >= 1000 * min_duration_secs

\* the Stop pushed for the window start_idx..end_idx
MakeStop(s, e) ==
    [location |-> compute_centroid(SubSeq(trajectory, s + 1, e)),
     start |-> At(trajectory, s).ts,
     end |-> At(trajectory, e - 1).ts,
     duration_secs |-> [num |-> At(trajectory, e - 1).ts - At(trajectory, s).ts,
                        den |-> 1000],
     event_count |-> e - s]

\* Trajectory::new on the caller's events, then the early return of detect_stops
DetectStopsStart ==
    /\ pc = "stops_start"
    /\ trajectory' = TrajectoryNew(events)
    /\ IF Len(events) < 2
       THEN /\ result' = <<>>
            /\ pc' = "stops_done"
       ELSE /\ pc' = "stops_scan"
            /\ UNCHANGED result
    /\ UNCHANGED <<events, stopsVars, nonStops>>

\* the anchor left where it is after a failed attempt
NextAnchor_stay(idx) == idx

\* start_idx += 1
NextAnchor(idx) == idx + 1

\* one pass of `while start_idx < events.len()`
DetectStopsScan ==
    /\ pc = "stops_scan"
    /\ start_idx < Len(trajectory)
    /\ LET end_idx == ExtendWindow(start_idx, start_idx)
       IN  IF /\ end_idx > start_idx
              /\ DurationMeets(At(trajectory, end_idx - 1).ts
                               - At(trajectory, start_idx).ts)
           THEN /\ stops' = Append(stops, MakeStop(start_idx, end_idx))
                /\ start_idx' = end_idx
           ELSE /\ start_idx' = NextAnchor(start_idx)
                /\ UNCHANGED stops
    /\ UNCHANGED <<pc, events, result, trajectory, radius_m, min_duration_secs,
                   nonStops>>

\* the scan is over: `stops` is returned
DetectStopsReturn ==
    /\ pc = "stops_scan"
    /\ start_idx >= Len(trajectory)
    /\ result' = stops
    /\ pc' = "stops_done"
    /\ UNCHANGED <<events, trajectory, stopsVars, nonStops>>

DetectStopsInitOn(inputs) ==
    /\ MetricsIdle
    /\ DbscanIdle
    /\ KMeansIdle
    /\ SimplifyIdle
    /\ OthersIdle
    /\ labels = <<>>
    /\ pc = "stops_start"
    /\ events \in inputs
    /\ trajectory = <<>>
    /\ radius_m \in RadiusValues
    /\ min_duration_secs \in MinDurationValues
    /\ start_idx = 0
    /\ stops = <<>>
    /\ result = <<>>

DetectStopsInit == DetectStopsInitOn(TrajectoryInputs)

DetectStopsNext == DetectStopsStart \/ DetectStopsScan \/ DetectStopsReturn

SpecDetectStops == DetectStopsInit /\ [][DetectStopsNext]_vars

\* the timestamps of the trajectories on which termination is checked
ScanTsValues == {0, 1000}

ScanInputs ==
    UNION {[1..n -> [lat : TrajLats, ts : ScanTsValues]] : n \in 0..MaxTrajN}

\* detect_stops is one uninterrupted call: a step that can be taken is taken
SpecDetectStopsFair ==
    /\ DetectStopsInitOn(ScanInputs)
    /\ [][DetectStopsNext]_vars
    /\ WF_vars(DetectStopsNext)

(***************************************************************************)
(* movement.rs: MovementAnalyzer::movement_segments.  It runs detect_stops *)
(* (the actions above) and then splits the trajectory around the stops.    *)
(* A returned Trajectory is [id, events]; id is the segment number of      *)
(* "{id}_segment_{i}", or -1 for the clone of the trajectory itself.       *)
(***************************************************************************)
\* events.iter().position(|e| e.timestamp >= ts).unwrap_or(events.len())
RECURSIVE PositionAtOrAfter(_, _)
PositionAtOrAfter(ts, j) ==
    IF j >= Len(trajectory) THEN Len(trajectory)
    ELSE IF At(trajectory, j).ts >= ts THEN j
    ELSE PositionAtOrAfter(ts, j + 1)

\* events.iter().position(|e| e.timestamp > ts).unwrap_or(events.len())
RECURSIVE PositionAfter(_, _)
PositionAfter(ts, j) ==
    IF j >= Len(trajectory) THEN Len(trajectory)
    ELSE IF At(trajectory, j).ts > ts THEN j
    ELSE PositionAfter(ts, j + 1)

\* events[from..to].to_vec() through Trajectory::new
Segment(i, from, to) ==
    [id |-> i, events |-> TrajectoryNew(SubSeq(trajectory, from + 1, to))]

\* the `for (i, stop) in stops.iter().enumerate()` loop and the final segment
RECURSIVE SegmentsFrom(_, _, _, _)
SegmentsFrom(sts, i, current_start, segments) ==
    IF i >= Len(sts)
    THEN IF current_start < Len(trajectory)
         THEN Append(segments, Segment(Len(sts), current_start, Len(trajectory)))
         ELSE segments
    ELSE LET stop == At(sts, i)
             stop_start_idx == PositionAtOrAfter(stop.start, 0)
         IN  SegmentsFrom(sts, i + 1, PositionAfter(stop.end, 0),
                          IF stop_start_idx > current_start
                          THEN Append(segments, Segment(i, current_start, stop_start_idx))
                          ELSE segments)

movement_segments(sts) ==
    IF sts = <<>> THEN <<[id |-> -1, events |-> trajectory]>>
    ELSE SegmentsFrom(sts, 0, 0, <<>>)

\* detect_stops has returned to movement_segments: the rest of its body
MovementSegments ==
    /\ pc = "stops_done"
    /\ result' = movement_segments(result)
    /\ pc' = "segments_done"
    /\ UNCHANGED <<events, trajectory, stopsVars, nonStops>>

SegmentsInit == DetectStopsInit

SegmentsNext == DetectStopsNext \/ MovementSegments

SpecSegments == SegmentsInit /\ [][SegmentsNext]_vars

(***************************************************************************)
(* movement.rs: Trajectory::simplify (Douglas-Peucker).  The recursion of  *)
(* douglas_peucker_indices is run on an explicit call stack: a frame is    *)
(* the slice events[lo..=hi] of the trajectory and how far the call got.   *)
(***************************************************************************)
\* the distance to the first end of the segment, without the projection
perpendicular_distance_to_start(point, line_start, line_end) ==
    haversine_distance(point, line_start)

\* planar projection on the segment, t clamped to [0, 1]; on the meridian
\* dx = 0, so t = (point - line_start) * dy / dy^2
perpendicular_distance(point, line_start, line_end) ==
    LET dy == line_end - line_start
        line_len_sq == dy * dy
        t_num == (point - line_start) * dy
        proj_lat == IF t_num <= 0 THEN line_start              \* t clamped to 0
                    ELSE IF t_num >= line_len_sq THEN line_end \* t clamped to 1
                    ELSE point                                 \* line_start + t * dy
    IN  IF line_len_sq = 0
        THEN haversine_distance(point, line_start)
        ELSE haversine_distance(point, proj_lat)

\* the loop of find_max_perpendicular_distance over i = 1 .. len - 2 of the
\* slice that starts at lo and has len events
RECURSIVE FindMaxFrom(_, _, _, _, _)
FindMaxFrom(lo, len, i, max_dist, max_idx) ==
    IF i > len - 2 THEN [max_dist |-> max_dist, max_idx |-> max_idx]
    ELSE LET dist == perpendicular_distance(At(trajectory, lo + i).lat,
                                            At(trajectory, lo).lat,
                                            At(trajectory, lo + len - 1).lat)
         IN  IF dist > max_dist
             THEN FindMaxFrom(lo, len, i + 1, dist, i)
             ELSE FindMaxFrom(lo, len, i + 1, max_dist, max_idx)

find_max_perpendicular_distance(lo, len) == FindMaxFrom(lo, len, 1, 0, 0)

\* the junction kept twice: left.pop() left out
JoinHalves_no_pop(left, right, max_idx) ==
    left \o [j \in 1..Len(right) |-> right[j] + max_idx]

\* left.pop(); left.extend(right adjusted by max_idx)
JoinHalves(left, right, max_idx) ==
    SubSeq(left, 1, Len(left) - 1) \o [j \in 1..Len(right) |-> right[j] + max_idx]

Frame(lo, hi) == [lo |-> lo, hi |-> hi, max_idx |-> 0, left |-> <<>>, at |-> "enter"]

Top == stack[Len(stack)]

Pop == SubSeq(stack, 1, Len(stack) - 1)

\* a call pushes a frame, or the stack is exhausted and the process dies
Call(frames, lo, hi) ==
    IF Len(frames) >= StackLimit
    THEN /\ pc' = "simplify_overflow"
         /\ stack' = frames
    ELSE /\ pc' = "dp_call"
         /\ stack' = Append(frames, Frame(lo, hi))

\* Trajectory::new on the caller's events, then simplify up to its first call
SimplifyStart ==
    /\ pc = "simplify_start"
    /\ trajectory' = TrajectoryNew(events)
    /\ IF Len(events) <= 2
       THEN /\ result' = trajectory'
            /\ pc' = "simplify_done"
            /\ UNCHANGED stack
       ELSE /\ Call(<<>>, 0, Len(events) - 1)
            /\ UNCHANGED result
    /\ UNCHANGED <<events, epsilon, ret, nonSimplify>>

\* douglas_peucker_indices from its entry to its first recursive call or return
DpEnter ==
    /\ pc = "dp_call"
    /\ LET len == Top.hi - Top.lo + 1
           far == find_max_perpendicular_distance(Top.lo, len)
       IN  IF len <= 2
           THEN /\ ret' = Indices(len)
                /\ stack' = Pop
                /\ pc' = "dp_return"
           ELSE IF far.max_dist > epsilon
           THEN \* left = douglas_peucker_indices(&events[..=max_idx], epsilon)
                Call(Pop \o <<[Top EXCEPT !.max_idx = far.max_idx, !.at = "left"]>>,
                     Top.lo, Top.lo + far.max_idx)
                /\ UNCHANGED ret
           ELSE /\ ret' = <<0, len - 1>>
                /\ stack' = Pop
                /\ pc' = "dp_return"
    /\ UNCHANGED <<events, result, trajectory, epsilon, nonSimplify>>

\* the left call returned: right = douglas_peucker_indices(&events[max_idx..], epsilon)
DpLeftReturned ==
    /\ pc = "dp_return"
    /\ stack # <<>>
    /\ Top.at = "left"
    /\ Call(Pop \o <<[Top EXCEPT !.left = ret, !.at = "right"]>>,
            Top.lo + Top.max_idx, Top.hi)
    /\ UNCHANGED <<events, result, trajectory, epsilon, ret, nonSimplify>>

\* the right call returned: the halves are joined and returned
DpRightReturned ==
    /\ pc = "dp_return"
    /\ stack # <<>>
    /\ Top.at = "right"
    /\ ret' = JoinHalves(Top.left, ret, Top.max_idx)
    /\ stack' = Pop
    /\ UNCHANGED <<pc, events, result, trajectory, epsilon, nonSimplify>>

\* the outermost call returned: the kept events, through Trajectory::new
SimplifyReturn ==
    /\ pc = "dp_return"
    /\ stack = <<>>
    /\ result' = TrajectoryNew([j \in 1..Len(ret) |-> At(trajectory, ret[j])])
    /\ pc' = "simplify_done"
    /\ UNCHANGED <<events, trajectory, simplifyVars, nonSimplify>>

SimplifyInitOn(inputs) ==
    /\ MetricsIdle
    /\ DbscanIdle
    /\ KMeansIdle
    /\ StopsIdle
    /\ OthersIdle
    /\ labels = <<>>
    /\ pc = "simplify_start"
    /\ events \in inputs
    /\ trajectory = <<>>
    /\ epsilon \in EpsilonValues
    /\ stack = <<>>
    /\ ret = <<>>
    /\ result = <<>>

SimplifyInit == SimplifyInitOn(TrajectoryInputs)

SimplifyNext ==
    SimplifyStart \/ DpEnter \/ DpLeftReturned \/ DpRightReturned \/ SimplifyReturn

SpecSimplify == SimplifyInit /\ [][SimplifyNext]_vars

\* the operations that return trajectories: simplify and movement_segments
MovementInit == SimplifyInit \/ SegmentsInit

MovementNext == SimplifyNext \/ SegmentsNext

SpecMovement == MovementInit /\ [][MovementNext]_vars

(***************************************************************************)
(* temporal_metrics.rs: event_rate.  A Timestamp is its to_unix_millis().  *)
(***************************************************************************)
bin_millis(size) ==
    CASE size = "Hour" -> HourMillis
      [] size = "Day" -> DayMillis
      [] size = "Week" -> WeekMillis

\* i64 division: the quotient is rounded toward zero
TruncDiv(a, b) == IF a >= 0 THEN a \div b ELSE -((-a) \div b)

\* (ts / bin_millis) * bin_millis
BinStart(ts, bm) == TruncDiv(ts, bm) * bm

\* the HashMap bins, read with unwrap_or(0)
BinCount(sorted, bm, start) ==
    Cardinality({j \in 1..Len(sorted) : BinStart(sorted[j].ts, bm) = start})

\* only the bins that hold an event are pushed
RECURSIVE EmitBins_skip_empty(_, _, _, _, _)
EmitBins_skip_empty(sorted, bm, bin_start, last_bin, out) ==
    IF bin_start > last_bin THEN out
    ELSE EmitBins_skip_empty(sorted, bm, bin_start + bm, last_bin,
             IF BinCount(sorted, bm, bin_start) = 0 THEN out
             ELSE Append(out, [start |-> bin_start,
                               end |-> bin_start + bm,
                               count |-> BinCount(sorted, bm, bin_start)]))

\* `while bin_start <= last_bin`
RECURSIVE EmitBins(_, _, _, _, _)
EmitBins(sorted, bm, bin_start, last_bin, out) ==
    IF bin_start > last_bin THEN out
    ELSE EmitBins(sorted, bm, bin_start + bm, last_bin,
             Append(out, [start |-> bin_start,
                          end |-> bin_start + bm,
                          count |-> BinCount(sorted, bm, bin_start)]))

event_rate(evs, size) ==
    IF evs = <<>> THEN <<>>
    ELSE LET sorted == SortByTs(evs)
             first_ts == sorted[1].ts
             last_ts == sorted[Len(sorted)].ts
             bm == bin_millis(size)
         IN  EmitBins(sorted, bm, BinStart(first_ts, bm), BinStart(last_ts, bm), <<>>)

\* the timestamps of the inputs: around the epoch and the edges of the bins
RateTs(size) ==
    LET bm == bin_millis(size)
    IN  {-bm - 1, -bm, -1, 0, 1, bm - 1, bm, 2 * bm + 1}

RateInputs(size) ==
    UNION {[1..n -> [lat : {0}, ts : RateTs(size)]] : n \in 0..MaxRateN}

EventRateCall ==
    /\ pc = "event_rate"
    /\ result' = event_rate(events, bin_size)
    /\ pc' = "event_rate_done"
    /\ UNCHANGED <<events, bin_size, nonEventRate>>

EventRateInit ==
    /\ MetricsIdle
    /\ DbscanIdle
    /\ KMeansIdle
    /\ StopsIdle
    /\ SimplifyIdle
    /\ labels = <<>>
    /\ trajectory = <<>>
    /\ events2 = <<>>
    /\ threshold_m = 0
    /\ pc = "event_rate"
    /\ bin_size \in TimeBins
    /\ events \in RateInputs(bin_size)
    /\ result = <<>>

EventRateNext == EventRateCall

SpecEventRate == EventRateInit /\ [][EventRateNext]_vars

(***************************************************************************)
(* temporal_metrics.rs: detect_bursts.  A TimeRange is [start, end] in     *)
(* milliseconds.                                                           *)
(***************************************************************************)
BurstInputs == UNION {[1..n -> [lat : {0}, ts : BurstTs]] : n \in 0..MaxBurstN}

\* take_while with `t <= window_end`: the window closed on the right
RECURSIVE CountWhile_closed(_, _, _)
CountWhile_closed(timestamps, j, window_end) ==
    IF j >= Len(timestamps) THEN 0
    ELSE IF At(timestamps, j) <= window_end
         THEN 1 + CountWhile_closed(timestamps, j + 1, window_end)
         ELSE 0

\* timestamps[j..].iter().take_while(|&&t| t < window_end).count()
RECURSIVE CountWhile(_, _, _)
CountWhile(timestamps, j, window_end) ==
    IF j >= Len(timestamps) THEN 0
    ELSE IF At(timestamps, j) < window_end
         THEN 1 + CountWhile(timestamps, j + 1, window_end)
         ELSE 0

\* the loop resuming two places after a burst, not one
RECURSIVE BurstsFrom_skip_next(_, _, _, _, _)
BurstsFrom_skip_next(timestamps, window_millis, m, i, bursts) ==
    IF i >= Len(timestamps) THEN bursts
    ELSE LET window_start == At(timestamps, i)
             window_end == window_start + window_millis
             count == CountWhile(timestamps, i, window_end)
             burst_end_idx == i + count - 1
         IN  IF count >= m
             THEN BurstsFrom_skip_next(timestamps, window_millis, m, burst_end_idx + 2,
                                       Append(bursts, [start |-> At(timestamps, i),
                                                       end |-> At(timestamps, burst_end_idx)]))
             ELSE BurstsFrom_skip_next(timestamps, window_millis, m, i + 1, bursts)

\* the `while i < timestamps.len()` loop
RECURSIVE BurstsFrom(_, _, _, _, _)
BurstsFrom(timestamps, window_millis, m, i, bursts) ==
    IF i >= Len(timestamps) THEN bursts
    ELSE LET window_start == At(timestamps, i)
             window_end == window_start + window_millis
             count == CountWhile(timestamps, i, window_end)
             burst_end_idx == i + count - 1
         IN  IF count >= m
             THEN BurstsFrom(timestamps, window_millis, m, burst_end_idx + 1,
                             Append(bursts, [start |-> At(timestamps, i),
                                             end |-> At(timestamps, burst_end_idx)]))
             ELSE BurstsFrom(timestamps, window_millis, m, i + 1, bursts)

detect_bursts(evs, w_secs, m) ==
    IF evs = <<>> \/ m = 0 THEN <<>>
    ELSE LET window_millis == w_secs * 1000
             sorted == SortByTs(evs)
             timestamps == [j \in 1..Len(sorted) |-> sorted[j].ts]
         IN  BurstsFrom(timestamps, window_millis, m, 0, <<>>)

DetectBurstsCall ==
    /\ pc = "detect_bursts"
    /\ result' = detect_bursts(events, window_secs, min_events)
    /\ pc' = "detect_bursts_done"
    /\ UNCHANGED <<events, metricsVars, nonMetrics>>

\* the operations of clustering, movement, event_rate and comparison at rest
RestIdle ==
    /\ DbscanIdle
    /\ KMeansIdle
    /\ StopsIdle
    /\ SimplifyIdle
    /\ OthersIdle
    /\ labels = <<>>
    /\ trajectory = <<>>

DetectBurstsInitOn(inputs) ==
    /\ RestIdle
    /\ pc = "detect_bursts"
    /\ events \in inputs
    /\ window_secs \in WindowSecsValues
    /\ min_events \in MinEventsValues
    /\ threshold_secs = 0
    /\ rows = 0
    /\ cols = 0
    /\ result = <<>>

DetectBurstsInit == DetectBurstsInitOn(BurstInputs)

DetectBurstsNext == DetectBurstsCall

SpecDetectBursts == DetectBurstsInit /\ [][DetectBurstsNext]_vars

(***************************************************************************)
(* temporal_metrics.rs: detect_gaps                                        *)
(***************************************************************************)
\* the loop over sorted.windows(2)
RECURSIVE GapsFrom(_, _, _, _)
GapsFrom(sorted, threshold_millis, j, gaps) ==
    IF j + 1 >= Len(sorted) THEN gaps
    ELSE LET start_ts == At(sorted, j).ts
             end_ts == At(sorted, j + 1).ts
         IN  GapsFrom(sorted, threshold_millis, j + 1,
                      IF end_ts - start_ts > threshold_millis
                      THEN Append(gaps, [start |-> start_ts, end |-> end_ts])
                      ELSE gaps)

detect_gaps(evs, t_secs) ==
    IF Len(evs) < 2 THEN <<>>
    ELSE GapsFrom(SortByTs(evs), t_secs * 1000, 0, <<>>)

DetectGapsCall ==
    /\ pc = "detect_gaps"
    /\ result' = detect_gaps(events, threshold_secs)
    /\ pc' = "detect_gaps_done"
    /\ UNCHANGED <<events, metricsVars, nonMetrics>>

DetectGapsInitOn(inputs) ==
    /\ RestIdle
    /\ pc = "detect_gaps"
    /\ events \in inputs
    /\ threshold_secs \in WindowSecsValues
    /\ window_secs = 0
    /\ min_events = 0
    /\ rows = 0
    /\ cols = 0
    /\ result = <<>>

(***************************************************************************)
(* temporal_metrics.rs: TemporalMetrics.  Seconds are exact fractions of   *)
(* milliseconds; inter_event_std_dev (a square root) is left out.          *)
(***************************************************************************)
Zero == [num |-> 0, den |-> 1]

DefaultTemporalMetrics ==
    [event_count |-> 0, time_range |-> None, duration_secs |-> Zero,
     avg_inter_event_time |-> Zero, min_inter_event_time |-> Zero,
     max_inter_event_time |-> Zero]

\* gaps in milliseconds between consecutive sorted timestamps
InterEventGaps(sorted) == [j \in 1..(Len(sorted) - 1) |-> sorted[j + 1].ts - sorted[j].ts]

from_timestamps(evs) ==
    IF evs = <<>> THEN DefaultTemporalMetrics
    ELSE LET sorted == SortByTs(evs)
             first == sorted[1].ts
             last == sorted[Len(sorted)].ts
             gaps == InterEventGaps(sorted)
         IN  [event_count |-> Len(evs),
              time_range |-> [start |-> first, end |-> last],
              duration_secs |-> [num |-> last - first, den |-> 1000],
              avg_inter_event_time |->
                  IF Len(sorted) < 2 THEN Zero
                  ELSE [num |-> SumSeq(gaps), den |-> 1000 * Len(gaps)],
              min_inter_event_time |->
                  IF Len(sorted) < 2 THEN Zero
                  ELSE [num |-> MinOf(Range(gaps)), den |-> 1000],
              max_inter_event_time |->
                  IF Len(sorted) < 2 THEN Zero
                  ELSE [num |-> MaxOf(Range(gaps)), den |-> 1000]]

TemporalMetrics_from_events(evs) ==
    IF evs = <<>> THEN DefaultTemporalMetrics ELSE from_timestamps(evs)

TemporalMetricsCall ==
    /\ pc = "temporal_metrics"
    /\ result' = TemporalMetrics_from_events(events)
    /\ pc' = "temporal_metrics_done"
    /\ UNCHANGED <<events, metricsVars, nonMetrics>>

TemporalMetricsInitOn(inputs) ==
    /\ RestIdle
    /\ MetricsIdle
    /\ pc = "temporal_metrics"
    /\ events \in inputs
    /\ result = <<>>

(***************************************************************************)
(* spatial_metrics.rs: SpatialMetrics and density_map, on the meridian.    *)
(* The centroid is an average of unit vectors turned back into degrees;    *)
(* the model keeps whether there is one (Some), not its coordinates, and   *)
(* leaves out dispersion, which is measured from it.                       *)
(***************************************************************************)
\* SpatialMetrics::default with a zero bounding box in place of None
DefaultSpatialMetrics_zero_box ==
    [event_count |-> 0, bounds |-> [min_lat |-> 0, max_lat |-> 0], centroid |-> None,
     total_distance |-> 0, avg_distance |-> Zero, max_distance |-> 0, area |-> None]

DefaultSpatialMetrics ==
    [event_count |-> 0, bounds |-> None, centroid |-> None,
     total_distance |-> 0, avg_distance |-> Zero, max_distance |-> 0, area |-> None]

\* SpatialMetrics::compute_bounds of a non-empty slice
SpatialBounds(evs) ==
    [min_lat |-> MinOf({evs[j].lat : j \in 1..Len(evs)}),
     max_lat |-> MaxOf({evs[j].lat : j \in 1..Len(evs)})]

\* distances between consecutive locations
ConsecutiveDistances(evs) ==
    [j \in 1..(Len(evs) - 1) |-> haversine_distance(evs[j].lat, evs[j + 1].lat)]

from_locations(evs) ==
    IF evs = <<>> THEN DefaultSpatialMetrics
    ELSE LET dists == ConsecutiveDistances(evs)
             few == Len(evs) < 2
         IN  [event_count |-> Len(evs),
              bounds |-> SpatialBounds(evs),
              centroid |-> Some,
              total_distance |-> IF few THEN 0 ELSE SumSeq(dists),
              avg_distance |-> IF few THEN Zero
                               ELSE [num |-> SumSeq(dists), den |-> Len(evs) - 1],
              max_distance |-> IF few THEN 0 ELSE MaxOf(Range(dists) \cup {0}),
              \* width_m * height_m, the width of a box on one meridian being 0
              area |-> 0]

SpatialMetrics_from_events(evs) ==
    IF evs = <<>> THEN DefaultSpatialMetrics ELSE from_locations(evs)

SpatialMetricsCall ==
    /\ pc = "spatial_metrics"
    /\ result' = SpatialMetrics_from_events(events)
    /\ pc' = "spatial_metrics_done"
    /\ UNCHANGED <<events, metricsVars, nonMetrics>>

SpatialMetricsInitOn(inputs) ==
    /\ RestIdle
    /\ MetricsIdle
    /\ pc = "spatial_metrics"
    /\ events \in inputs
    /\ result = <<>>

\* ((loc.lat - min_lat) / lat_step).floor() as usize, then .min(rows - 1);
\* lat_step = 0 gives 0.0 / 0.0 = NaN, which the cast turns into 0
DensityRow(lat, bounds, r) ==
    IF bounds.max_lat = bounds.min_lat THEN 0
    ELSE LET row == ((lat - bounds.min_lat) * r) \div (bounds.max_lat - bounds.min_lat)
         IN  IF row < r - 1 THEN row ELSE r - 1

\* every longitude is 0: lon_step = 0, the column is NaN as usize = 0
DensityCol(c) == 0

\* the cells in row-major order; lat is the cell centre min_lat + (row + 0.5)
\* * lat_step as a fraction; a cell of width 0 has area 0 and density 0
density_map(evs, r, c) ==
    IF evs = <<>> \/ r = 0 \/ c = 0 THEN <<>>
    ELSE LET bounds == SpatialBounds(evs)
             Count(row, col) ==
                 Cardinality({j \in 1..Len(evs) :
                                 /\ DensityRow(evs[j].lat, bounds, r) = row
                                 /\ DensityCol(c) = col})
         IN  [j \in 1..(r * c) |->
                LET row == (j - 1) \div c
                    col == (j - 1) % c
                IN  [lat |-> [num |-> 2 * r * bounds.min_lat
                                       + (2 * row + 1) * (bounds.max_lat - bounds.min_lat),
                              den |-> 2 * r],
                     lon |-> 0,
                     count |-> Count(row, col),
                     density |-> 0]]

DensityMapCall ==
    /\ pc = "density_map"
    /\ result' = density_map(events, rows, cols)
    /\ pc' = "density_map_done"
    /\ UNCHANGED <<events, metricsVars, nonMetrics>>

DensityMapInitOn(inputs) ==
    /\ RestIdle
    /\ pc = "density_map"
    /\ events \in inputs
    /\ rows \in GridValues
    /\ cols \in GridValues
    /\ window_secs = 0
    /\ min_events = 0
    /\ threshold_secs = 0
    /\ result = <<>>

(***************************************************************************)
(* comparison.rs: spatial_similarity.  The f64 returned is the exact       *)
(* fraction num / den.                                                     *)
(***************************************************************************)
CompareInputs == UNION {[1..n -> {Located(l) : l \in CmpLats}] : n \in 0..MaxCmpN}

\* the comparison `dist <= threshold_m` made strict
HasNearby_strict(e1, evs2) ==
    \E j \in 1..Len(evs2) : haversine_distance(e1.lat, evs2[j].lat) < threshold_m

\* the inner loop with its break: some event of events2 is within threshold_m
HasNearby(e1, evs2) ==
    \E j \in 1..Len(evs2) : haversine_distance(e1.lat, evs2[j].lat) <= threshold_m

\* the outer loop: matches after the events of evs1 from position j on
RECURSIVE CountMatches(_, _, _, _)
CountMatches(evs1, evs2, j, matches) ==
    IF j > Len(evs1) THEN matches
    ELSE CountMatches(evs1, evs2, j + 1,
                      IF HasNearby(evs1[j], evs2) THEN matches + 1 ELSE matches)

spatial_similarity(evs1, evs2) ==
    IF evs1 = <<>> \/ evs2 = <<>> THEN [num |-> 0, den |-> 1]
    ELSE LET matches == CountMatches(evs1, evs2, 1, 0)
             union == Len(evs1) + Len(evs2) - matches
         IN  IF union > 0 THEN [num |-> matches, den |-> union]
             ELSE [num |-> 0, den |-> 1]

SpatialSimilarityCall ==
    /\ pc = "spatial_similarity"
    /\ result' = spatial_similarity(events, events2)
    /\ pc' = "spatial_similarity_done"
    /\ UNCHANGED <<events, compareVars, nonCompare>>

CompareInitOn(inputs) ==
    /\ MetricsIdle
    /\ DbscanIdle
    /\ KMeansIdle
    /\ StopsIdle
    /\ SimplifyIdle
    /\ labels = <<>>
    /\ trajectory = <<>>
    /\ bin_size = "Hour"
    /\ pc = "spatial_similarity"
    /\ events \in inputs
    /\ events2 \in inputs
    /\ threshold_m \in ThresholdValues
    /\ result = [num |-> 0, den |-> 1]

CompareInit == CompareInitOn(CompareInputs)

CompareNext == SpatialSimilarityCall

SpecCompare == CompareInit /\ [][CompareNext]_vars

(***************************************************************************)
(* comparison.rs: temporal_similarity                                      *)
(***************************************************************************)
Timed(ts) == [lat |-> 0, ts |-> ts]

TemporalInputs == UNION {[1..n -> {Timed(t) : t \in CmpTs}] : n \in 0..MaxCmpN}

\* the range taken from the first and the last event, as if the slice were sorted
compute_time_range_first_last(evs) ==
    IF evs = <<>> THEN None
    ELSE [start |-> evs[1].ts, end |-> evs[Len(evs)].ts]

\* the loop over events.iter().skip(1) keeping the least and greatest timestamp
RECURSIVE TimeRangeFrom(_, _, _, _)
TimeRangeFrom(evs, j, min_ts, max_ts) ==
    IF j > Len(evs) THEN [start |-> min_ts, end |-> max_ts]
    ELSE LET ts == evs[j].ts
         IN  TimeRangeFrom(evs, j + 1,
                           IF ts < min_ts THEN ts ELSE min_ts,
                           IF ts > max_ts THEN ts ELSE max_ts)

compute_time_range(evs) ==
    IF evs = <<>> THEN None
    ELSE TimeRangeFrom(evs, 2, evs[1].ts, evs[1].ts)

temporal_similarity(evs1, evs2) ==
    LET range1 == compute_time_range(evs1)
        range2 == compute_time_range(evs2)
    IN  IF range1 = None THEN [num |-> 0, den |-> 1]
        ELSE IF range2 = None THEN [num |-> 0, den |-> 1]
        ELSE LET start1 == range1.start
                 end1 == range1.end
                 start2 == range2.start
                 end2 == range2.end
                 overlap_start == IF start1 > start2 THEN start1 ELSE start2
                 overlap_end == IF end1 < end2 THEN end1 ELSE end2
                 overlap == overlap_end - overlap_start
                 union == (IF end1 > end2 THEN end1 ELSE end2)
                          - (IF start1 < start2 THEN start1 ELSE start2)
             IN  IF overlap_start >= overlap_end THEN [num |-> 0, den |-> 1]
                 ELSE IF union > 0 THEN [num |-> overlap, den |-> union]
                 ELSE [num |-> 0, den |-> 1]

TemporalSimilarityCall ==
    /\ pc = "temporal_similarity"
    /\ result' = temporal_similarity(events, events2)
    /\ pc' = "temporal_similarity_done"
    /\ UNCHANGED <<events, compareVars, nonCompare>>

TemporalInitOn(inputs) ==
    /\ MetricsIdle
    /\ DbscanIdle
    /\ KMeansIdle
    /\ StopsIdle
    /\ SimplifyIdle
    /\ labels = <<>>
    /\ trajectory = <<>>
    /\ bin_size = "Hour"
    /\ pc = "temporal_similarity"
    /\ events \in inputs
    /\ events2 \in inputs
    /\ threshold_m = 0
    /\ result = [num |-> 0, den |-> 1]

TemporalInit == TemporalInitOn(TemporalInputs)

TemporalNext == TemporalSimilarityCall

SpecTemporal == TemporalInit /\ [][TemporalNext]_vars

(***************************************************************************)
(* The whole library: any one operation, run on any small input            *)
(***************************************************************************)
SmallInputs == UNION {[1..n -> [lat : {0, 1}, ts : {0, 1000}]] : n \in 0..MaxSmallN}

Init ==
    \/ DbscanInitOn(SmallInputs)
    \/ KMeansInitOn(SmallInputs)
    \/ DetectStopsInitOn(SmallInputs)
    \/ SimplifyInitOn(SmallInputs)
    \/ EventRateInit
    \/ CompareInitOn(SmallInputs)
    \/ TemporalInitOn(SmallInputs)
    \/ DetectBurstsInitOn(SmallInputs)
    \/ DetectGapsInitOn(SmallInputs)
    \/ TemporalMetricsInitOn(SmallInputs)
    \/ SpatialMetricsInitOn(SmallInputs)
    \/ DensityMapInitOn(SmallInputs)

Next ==
    \/ DbscanNext
    \/ KMeansNext
    \/ SegmentsNext
    \/ SimplifyNext
    \/ EventRateNext
    \/ CompareNext
    \/ TemporalNext
    \/ DetectBurstsNext
    \/ DetectGapsCall
    \/ TemporalMetricsCall
    \/ SpatialMetricsCall
    \/ DensityMapCall

Spec == Init /\ [][Next]_vars

(***************************************************************************)
(* DBSCAN: properties of the returned ClusteringResult                     *)
(***************************************************************************)
\* how many places of v hold x
Occ(v, x) == Cardinality({p \in 1..Len(v) : v[p] = x})

DbscanDone == pc = "dbscan_done"

EventIdx == 0..(Len(events) - 1)

\* the places index j takes in clusters other than the one with id c
OccElsewhere(j, c) ==
    \A d \in 1..Len(result.clusters) :
        result.clusters[d].id # c => Occ(result.clusters[d].event_indices, j) = 0

\* C1: DBSCAN.cluster returns n labels, and every index 0..n-1 is in exactly
\* one place: once in the event_indices of the one cluster whose id is its
\* label, or once in noise (label -1); none missing, duplicated or in both.
C1_DbscanPartition ==
    DbscanDone =>
        /\ Len(result.labels) = Len(events)
        /\ \A c \in 1..Len(result.clusters) :
               /\ result.clusters[c].id = c - 1
               /\ Range(result.clusters[c].event_indices) \subseteq EventIdx
        /\ Range(result.noise) \subseteq EventIdx
        /\ \A j \in EventIdx :
               LET l == At(result.labels, j)
               IN  IF l = -1
                   THEN /\ Occ(result.noise, j) = 1
                        /\ OccElsewhere(j, -1)
                   ELSE /\ l \in 0..(Len(result.clusters) - 1)
                        /\ Occ(result.clusters[l + 1].event_indices, j) = 1
                        /\ OccElsewhere(j, l)
                        /\ Occ(result.noise, j) = 0

\* a finished run with a cluster of several events and a noise point
C1_Witness ==
    /\ DbscanDone
    /\ Len(events) = MaxN
    /\ Len(result.clusters) >= 1
    /\ Len(result.clusters[1].event_indices) >= 2
    /\ Len(result.noise) >= 1

\* the events other than j within eps of event j
Within(j) ==
    {m \in EventIdx : m # j /\ Abs(At(events, m).lat - At(events, j).lat) <= eps}

IsCore(j) == Cardinality(Within(j)) >= min_points

IsNoise(j) == At(result.labels, j) = -1 /\ j \in Range(result.noise)

NoiseIffUnreached ==
    \A j \in EventIdx :
        IsNoise(j) <=> (~IsCore(j) /\ \A m \in Within(j) : ~IsCore(m))

\* C10 as stated: noise exactly when neither core nor within eps of a core
\* point, and an event with no other event within eps is always noise.
C10_Original ==
    DbscanDone =>
        /\ NoiseIffUnreached
        /\ \A j \in EventIdx : Within(j) = {} => IsNoise(j)

\* C10 amended: noise exactly when neither core nor within eps of a core
\* point; an event with no other event within eps is noise when min_points >= 1
\* (with min_points = 0 it is itself a core point and forms a cluster).
C10_NoiseExactlyUnreached ==
    DbscanDone =>
        /\ NoiseIffUnreached
        /\ min_points >= 1 => \A j \in EventIdx : Within(j) = {} => IsNoise(j)

\* a finished run where a border point was absorbed and an isolated point is noise
C10_Witness ==
    /\ DbscanDone
    /\ min_points >= 2
    /\ \E j \in EventIdx : ~IsCore(j) /\ Within(j) # {} /\ ~IsNoise(j)
    /\ \E j \in EventIdx : Within(j) = {} /\ IsNoise(j)

(***************************************************************************)
(* K-means: properties of the returned ClusteringResult                    *)
(***************************************************************************)
KMeansDone == pc = "kmeans_done"

\* ClusteringResult::cluster_of
cluster_of(res, event_idx) ==
    IF event_idx >= Len(res.labels) THEN "None"
    ELSE LET label == At(res.labels, event_idx)
         IN  IF label < 0 \/ label >= Len(res.clusters) THEN "None"
             ELSE At(res.clusters, label)

\* C3: in every K-means result labels[i] is the id of the returned cluster
\* whose event_indices contains i, and cluster_of(i) is that cluster, also
\* when an empty cluster was dropped and the rest renumbered.
C3_LabelsNameTheCluster ==
    KMeansDone =>
        \A i \in EventIdx : \A c \in 1..Len(result.clusters) :
            Occ(result.clusters[c].event_indices, i) >= 1 =>
                /\ At(result.labels, i) = result.clusters[c].id
                /\ cluster_of(result, i) = result.clusters[c]

\* C4: every K-means result has as many labels as there were input events,
\* k = 0 with a non-empty input and k > n included.
C4_LabelsLength ==
    KMeansDone => Len(result.labels) = Len(events)

\* C9: K-means returns at most min(k, n) clusters, and none when n = 0 or k = 0.
C9_AtMostMinKN ==
    KMeansDone =>
        /\ Len(result.clusters) <= k
        /\ Len(result.clusters) <= Len(events)
        /\ (Len(events) = 0 \/ k = 0) => result.clusters = <<>>

\* a finished run asked for more clusters than events that returned one per event
C9_Witness ==
    /\ KMeansDone
    /\ Len(events) >= 2
    /\ k > Len(events)
    /\ iter >= 1
    /\ Len(result.clusters) = Len(events)

(***************************************************************************)
(* detect_stops: properties of the returned stops                          *)
(***************************************************************************)
StopsDone == pc = "stops_done"

StopLongEnough(st) == st.end - st.start >= 1000 * min_duration_secs

\* C5 as stated: every Stop detect_stops emits, for any trajectory, radius_m
\* and min_duration_secs, lasts at least min_duration_secs and has
\* event_count >= 2.
C5_Original ==
    StopsDone =>
        \A j \in 1..Len(result) :
            StopLongEnough(result[j]) /\ result[j].event_count >= 2

\* C5 amended: every emitted Stop lasts at least min_duration_secs and has
\* event_count >= 1; it has event_count >= 2 whenever min_duration_secs > 0.
C5_StopsLongEnough ==
    StopsDone =>
        \A j \in 1..Len(result) :
            /\ StopLongEnough(result[j])
            /\ result[j].event_count >= 1
            /\ min_duration_secs > 0 => result[j].event_count >= 2

\* a finished scan that emitted a stop of several events under a positive
\* threshold and then moved on past it
C5_Witness ==
    /\ StopsDone
    /\ min_duration_secs >= 1
    /\ Len(result) >= 1
    /\ result[1].event_count >= 2
    /\ result[1].event_count < Len(trajectory)

(***************************************************************************)
(* Trajectory::simplify: properties of the returned trajectory             *)
(***************************************************************************)
SimplifyDone == pc = "simplify_done"

TrajIdx == 0..(Len(trajectory) - 1)

\* the events of the trajectory at the indices in S, in the trajectory's order
Pick(S) ==
    LET In(j) == j \in S
        ix == SelectSeq(Indices(Len(trajectory)), In)
    IN  [j \in 1..Len(ix) |-> At(trajectory, ix[j])]

\* C6: simplify returns an order-preserving subsequence of the trajectory's
\* events (strictly increasing indices), never longer than the input, that
\* holds the first and the last input event.
C6_SimplifySubsequence ==
    SimplifyDone =>
        /\ Len(result) <= Len(trajectory)
        /\ \E S \in SUBSET TrajIdx :
               /\ TrajIdx # {} => 0 \in S /\ Len(trajectory) - 1 \in S
               /\ result = Pick(S)

\* a finished simplification that recursed, kept one interior event and
\* dropped another
C6_Witness ==
    /\ SimplifyDone
    /\ Len(trajectory) = 4
    /\ Len(result) = 3
    /\ epsilon >= 0

(***************************************************************************)
(* event_rate: properties of the returned bins                             *)
(***************************************************************************)
EventRateDone == pc = "event_rate_done"

\* C7: event_rate returns bins in ascending order, each starting one bin
\* width after the previous one (empty bins included), from the bin that
\* counts the earliest event to the bin that counts the latest, and the
\* counts sum to the number of input events.
C7_BinsContiguous ==
    EventRateDone =>
        LET bm == bin_millis(bin_size)
        IN  /\ (events = <<>>) <=> (result = <<>>)
            /\ \A j \in 1..Len(result) : result[j].end = result[j].start + bm
            /\ \A j \in 1..(Len(result) - 1) : result[j + 1].start = result[j].start + bm
            /\ result # <<>> => result[1].count >= 1 /\ result[Len(result)].count >= 1
            /\ SumSeq([j \in 1..Len(result) |-> result[j].count]) = Len(events)

\* a finished call that returned an empty bin between two bins with events
C7_Witness ==
    /\ EventRateDone
    /\ Len(events) = MaxRateN
    /\ \E j \in 2..(Len(result) - 1) : result[j].count = 0

\* C8: event_rate counts every event in the left-aligned bin that contains
\* it: each bin is one bin width long and counts exactly the events with
\* bin.start <= ts < bin.end, timestamps before 1970 included.
C8_CountedInContainingBin ==
    EventRateDone =>
        \A j \in 1..Len(result) :
            /\ result[j].end - result[j].start = bin_millis(bin_size)
            /\ result[j].count =
                   Cardinality({i \in 1..Len(events) :
                                   /\ result[j].start <= events[i].ts
                                   /\ events[i].ts < result[j].end})

(***************************************************************************)
(* spatial_similarity: the range of the returned score                     *)
(***************************************************************************)
\* C2: for all pairs of event collections and every threshold,
\* spatial_similarity returns a value in [0, 1].
C2_SpatialInUnitInterval ==
    pc = "spatial_similarity_done" =>
        /\ result.den > 0
        /\ 0 <= result.num
        /\ result.num <= result.den

SpatialDone == pc = "spatial_similarity_done"

\* m: the events of events that have an event of events2 within threshold_m
Matched ==
    {i \in 1..Len(events) :
        \E j \in 1..Len(events2) : Abs(events[i].lat - events2[j].lat) <= threshold_m}

\* the returned fraction equals m / (|s1| + |s2| - m), and 0 for an empty side
SpatialIsJaccard ==
    LET m == Cardinality(Matched)
    IN  IF events = <<>> \/ events2 = <<>>
        THEN result.num = 0 /\ result.den > 0
        ELSE /\ result.den > 0
             /\ result.num * (Len(events) + Len(events2) - m) = m * result.den

\* collections with no pair within threshold_m score 0
NoPairScoresZero == Matched = {} => result.num = 0

\* C11 as stated: the score is m / (|s1| + |s2| - m), 0 for an empty side;
\* a non-empty collection against an identical copy scores 1 (whatever the
\* threshold) and collections with no pair within the threshold score 0.
C11_Original ==
    SpatialDone =>
        /\ SpatialIsJaccard
        /\ NoPairScoresZero
        /\ (events # <<>> /\ events2 = events) => result.num = result.den

\* C11: the score is m / (|s1| + |s2| - m), 0 for an empty side; collections
\* with no pair within the threshold score 0; a non-empty collection against
\* an identical copy scores 1 when the threshold is not negative.
C11_SpatialIsJaccard ==
    SpatialDone =>
        /\ SpatialIsJaccard
        /\ NoPairScoresZero
        /\ (events # <<>> /\ events2 = events /\ threshold_m >= 0)
               => result.num = result.den

\* an identical copy of several events at different places, compared at
\* threshold 0, and scored 1
C11_Witness ==
    /\ SpatialDone
    /\ Len(events) >= 2
    /\ events2 = events
    /\ events[1].lat # events[2].lat
    /\ threshold_m = 0
    /\ result.num = result.den

(***************************************************************************)
(* temporal_similarity: the returned score                                 *)
(***************************************************************************)
TemporalDone == pc = "temporal_similarity_done"

TsOf(evs) == {evs[j].ts : j \in 1..Len(evs)}

\* length of the intersection of the two [min, max] timestamp ranges
RangeOverlap ==
    LET lo == MaxOf({MinOf(TsOf(events)), MinOf(TsOf(events2))})
        hi == MinOf({MaxOf(TsOf(events)), MaxOf(TsOf(events2))})
    IN  IF hi > lo THEN hi - lo ELSE 0

\* length of the span from the earlier start to the later end
RangeSpan == MaxOf(TsOf(events) \cup TsOf(events2)) - MinOf(TsOf(events) \cup TsOf(events2))

\* C12: temporal_similarity is (length of the intersection of the two
\* [min, max] timestamp ranges) / (length of the span from the earlier start
\* to the later end), 0 when the ranges do not overlap or a collection is
\* empty, and always within [0, 1].
C12_TemporalIsOverlapOverSpan ==
    TemporalDone =>
        /\ result.den > 0
        /\ 0 <= result.num
        /\ result.num <= result.den
        /\ IF events = <<>> \/ events2 = <<>> THEN result.num = 0
           ELSE IF RangeOverlap = 0 THEN result.num = 0
           ELSE result.num * RangeSpan = RangeOverlap * result.den

\* two unsorted collections whose ranges overlap in part
C12_Witness ==
    /\ TemporalDone
    /\ Len(events) >= 2
    /\ events[1].ts > events[2].ts
    /\ Len(events2) >= 2
    /\ events2[1].ts > events2[2].ts
    /\ 0 < result.num
    /\ result.num < result.den

(***************************************************************************)
(* Trajectory ordering                                                     *)
(***************************************************************************)
NonDecreasing(evs) == \A j \in 1..(Len(evs) - 1) : evs[j].ts <= evs[j + 1].ts

WithTs(evs, t) == LET Has(e) == e.ts = t IN SelectSeq(evs, Has)

\* sorted is evs in non-decreasing timestamp order, equal timestamps in input order
StablySorted(evs, sorted) ==
    /\ Len(sorted) = Len(evs)
    /\ NonDecreasing(sorted)
    /\ \A t \in TsOf(evs) \cup TsOf(sorted) : WithTs(sorted, t) = WithTs(evs, t)

SegmentsDone == pc = "segments_done"

\* C13: after Trajectory::new the stored events are the input events in
\* non-decreasing timestamp order, equal timestamps in input order; the
\* trajectories simplify and movement_segments return are in that order too.
C13_TrajectorySorted ==
    /\ pc \notin {"stops_start", "simplify_start"} => StablySorted(events, trajectory)
    /\ SimplifyDone => NonDecreasing(result)
    /\ SegmentsDone => \A j \in 1..Len(result) : NonDecreasing(result[j].events)

\* an unsorted input with two different events at one timestamp, split
\* around a stop into a segment of several events
C13_Witness ==
    /\ SegmentsDone
    /\ stops # <<>>
    /\ \E j \in 1..Len(result) : Len(result[j].events) >= 2
    /\ \E a, b \in 1..Len(events) :
           /\ a < b
           /\ events[a].ts > events[b].ts
    /\ \E a, b \in 1..Len(events) :
           /\ a < b
           /\ events[a].ts = events[b].ts
           /\ events[a].lat # events[b].lat

(***************************************************************************)
(* movement_segments: the split around the stops                           *)
(***************************************************************************)
\* the index windows [lo, hi] of the trajectory that detect_stops pushed
\* stops for, in the order it pushed them
RECURSIVE StopWindowsFrom(_, _)
StopWindowsFrom(s, acc) ==
    IF s >= Len(trajectory) THEN acc
    ELSE LET e == ExtendWindow(s, s)
         IN  IF /\ e > s
                /\ DurationMeets(At(trajectory, e - 1).ts - At(trajectory, s).ts)
             THEN StopWindowsFrom(e, Append(acc, [lo |-> s, hi |-> e - 1]))
             ELSE StopWindowsFrom(s + 1, acc)

StopWindows == IF Len(trajectory) < 2 THEN <<>> ELSE StopWindowsFrom(0, <<>>)

InStopWindow(j) ==
    \E w \in 1..Len(StopWindows) : StopWindows[w].lo <= j /\ j <= StopWindows[w].hi

\* the events of the trajectory outside every stop window, in order
OutsideStops ==
    LET Out(j) == ~InStopWindow(j)
        ix == SelectSeq(Indices(Len(trajectory)), Out)
    IN  [j \in 1..Len(ix) |-> At(trajectory, ix[j])]

RECURSIVE ConcatEvents(_)
ConcatEvents(segs) ==
    IF segs = <<>> THEN <<>> ELSE Head(segs).events \o ConcatEvents(Tail(segs))

\* C15: movement_segments splits the trajectory around its detected stops:
\* the returned segments, one after the other, are exactly the events outside
\* the stop windows in trajectory order (so every event is in a stop window or
\* in exactly one segment, and no segment holds an event of a stop window),
\* every segment is non-empty, and with no stop detected the one segment is
\* the whole trajectory.
C15_SegmentsPartition ==
    SegmentsDone =>
        /\ Len(StopWindows) = Len(stops)
        /\ ConcatEvents(result) = OutsideStops
        /\ \A j \in 1..Len(result) : result[j].events # <<>>
        /\ stops = <<>> => result = <<[id |-> -1, events |-> trajectory]>>

(***************************************************************************)
(* detect_bursts: properties of the returned bursts                        *)
(***************************************************************************)
BurstsDone == pc = "detect_bursts_done"

\* the events of the input whose timestamp lies in [b.start, b.end]
Covered(b) == {j \in 1..Len(events) : b.start <= events[j].ts /\ events[j].ts <= b.end}

\* C14: detect_bursts returns bursts in chronological order that never
\* overlap (each starts strictly after the previous one ends); the start and
\* the end of every burst are timestamps of input events, every burst covers
\* at least min_events events and spans less than window_secs.
C14_BurstsDisjoint ==
    BurstsDone =>
        /\ \A j \in 1..Len(result) :
               /\ result[j].start \in TsOf(events)
               /\ result[j].end \in TsOf(events)
               /\ result[j].start <= result[j].end
               /\ Cardinality(Covered(result[j])) >= min_events
               /\ result[j].end - result[j].start < 1000 * window_secs
        /\ \A j \in 1..(Len(result) - 1) : result[j].end < result[j + 1].start

\* two bursts of two events each, found in an unsorted input
C14_Witness ==
    /\ BurstsDone
    /\ Len(result) = 2
    /\ min_events = 2
    /\ result[1].start < result[1].end
    /\ events[1].ts > events[2].ts

(***************************************************************************)
(* Degenerate inputs                                                       *)
(***************************************************************************)
\* C16: on degenerate inputs the analytics functions return the documented
\* empty or zero result: an empty event list gives SpatialMetrics and
\* TemporalMetrics with event_count 0 and no bounds, centroid or time range,
\* DBSCAN and K-means results with no clusters, empty outputs of event_rate,
\* detect_gaps, detect_bursts, detect_stops and density_map, and similarity
\* 0; k = 0, zero grid rows or columns and min_events = 0 give empty results.
C16_DegenerateInputs ==
    /\ (pc = "spatial_metrics_done" /\ events = <<>>) =>
           /\ result.event_count = 0
           /\ result.bounds = None
           /\ result.centroid = None
    /\ (pc = "temporal_metrics_done" /\ events = <<>>) =>
           /\ result.event_count = 0
           /\ result.time_range = None
    /\ (pc = "dbscan_done" /\ events = <<>>) => result.clusters = <<>>
    /\ (pc = "kmeans_done" /\ (events = <<>> \/ k = 0)) => result.clusters = <<>>
    /\ (/\ pc \in {"event_rate_done", "detect_gaps_done", "detect_bursts_done",
                    "stops_done", "density_map_done"}
        /\ events = <<>>) => result = <<>>
    /\ (/\ pc \in {"spatial_similarity_done", "temporal_similarity_done"}
        /\ (events = <<>> \/ events2 = <<>>)) => result.num = 0
    /\ (pc = "density_map_done" /\ (rows = 0 \/ cols = 0)) => result = <<>>
    /\ (pc = "detect_bursts_done" /\ min_events = 0) => result = <<>>

\* SpatialMetrics of no events
C16_Witness ==
    /\ pc = "spatial_metrics_done"
    /\ events = <<>>
    /\ result.event_count = 0

(***************************************************************************)
(* simplify: a tolerance that covers every interior event                  *)
(***************************************************************************)
\* distance of latitude p from the segment of the meridian between a and b
SegDist(p, a, b) ==
    LET lo == IF a < b THEN a ELSE b
        hi == IF a < b THEN b ELSE a
    IN  IF p < lo THEN lo - p ELSE IF p > hi THEN p - hi ELSE 0

\* the largest distance of an interior event from the segment first-last
MaxInteriorDist ==
    MaxOf({SegDist(trajectory[j].lat, trajectory[1].lat, trajectory[Len(trajectory)].lat) :
              j \in 2..(Len(trajectory) - 1)})

\* C17: for a trajectory of at least 3 events, when epsilon is at least the
\* largest perpendicular distance of an interior event from the segment
\* joining the first and the last event, simplify returns exactly the two
\* endpoint events.
C17_LargeEpsilonKeepsEndpoints ==
    (/\ pc \in {"dp_call", "dp_return", "simplify_done", "simplify_overflow"}
     /\ Len(trajectory) >= 3
     /\ epsilon >= MaxInteriorDist) =>
        /\ pc # "simplify_overflow"
        /\ Len(stack) <= 1
        /\ SimplifyDone => result = <<trajectory[1], trajectory[Len(trajectory)]>>

\* four events whose interior deviates by exactly epsilon, reduced to two
C17_Witness ==
    /\ SimplifyDone
    /\ Len(trajectory) = 4
    /\ MaxInteriorDist = 1
    /\ epsilon = 1
    /\ Len(result) = 2

(***************************************************************************)
(* DBSCAN: how labels change, and who gets a shared border event           *)
(***************************************************************************)
\* a step keeps every cluster id; a provisional noise mark stays, or becomes a
\* cluster id, or is finalised as noise (-1) by the last pass of cluster
NoRelabel ==
    \A j \in 1..Len(labels) :
        /\ labels[j] >= 0 => labels'[j] = labels[j]
        /\ labels[j] = -2 =>
               \/ labels'[j] = -2
               \/ labels'[j] >= 0
               \/ pc' = "dbscan_done" /\ labels'[j] = -1

\* the core events within eps of event j
CoreNeighbours(j) == {c \in Within(j) : IsCore(c)}

\* a border event is in the lowest-numbered cluster of its core neighbours
BorderLowest ==
    \A j \in EventIdx :
        (~IsCore(j) /\ CoreNeighbours(j) # {}) =>
            At(result.labels, j) = MinOf({At(result.labels, c) : c \in CoreNeighbours(j)})

\* C18: DBSCAN never relabels an index that has a cluster id, a provisional
\* noise mark is only ever replaced by a cluster id (or finalised as noise),
\* and a border event within eps of core events of several clusters ends in
\* the earliest-discovered (lowest-id) of those clusters.
C18_FirstClusterWins ==
    /\ [][NoRelabel]_vars
    /\ [](DbscanDone => BorderLowest)

\* a finished run with a border event between core events of two clusters
C18_Witness ==
    /\ DbscanDone
    /\ \E j \in EventIdx :
           /\ ~IsCore(j)
           /\ \E c, d \in CoreNeighbours(j) :
                  At(result.labels, c) < At(result.labels, d)

(***************************************************************************)
(* DBSCAN with the work-list of expand_cluster as a stack (the code) or as *)
(* a queue (the breadth-first rewrite), as functions of the input          *)
(***************************************************************************)
NeighboursOf(evs, e, j) ==
    LET Near(m) == m # j /\ Abs(At(evs, m).lat - At(evs, j).lat) <= e
    IN  SelectSeq(Indices(Len(evs)), Near)

\* expand_cluster; fifo takes the next index from the front of the work-list.
\* st is the labels with the order in which indices were given a cluster id
RECURSIVE ExpandWith(_, _, _, _, _, _, _, _)
ExpandWith(fifo, evs, e, mp, st, sds, done, c) ==
    IF sds = <<>> THEN st
    ELSE LET cur == IF fifo THEN Head(sds) ELSE sds[Len(sds)]
             rest == IF fifo THEN Tail(sds) ELSE SubSeq(sds, 1, Len(sds) - 1)
             nb == NeighboursOf(evs, e, cur)
             taken == [lbls |-> SetAt(st.lbls, cur, c), order |-> Append(st.order, cur)]
         IN  IF cur \in done
             THEN ExpandWith(fifo, evs, e, mp, st, rest, done, c)
             ELSE IF At(st.lbls, cur) = -2
             THEN ExpandWith(fifo, evs, e, mp, taken, rest, done \cup {cur}, c)
             ELSE IF At(st.lbls, cur) # -1
             THEN ExpandWith(fifo, evs, e, mp, st, rest, done \cup {cur}, c)
             ELSE ExpandWith(fifo, evs, e, mp, taken,
                             IF Len(nb) >= mp THEN rest \o nb ELSE rest,
                             done \cup {cur}, c)

\* the scan of cluster and its final pass over the noise marks
RECURSIVE ScanWith(_, _, _, _, _, _, _)
ScanWith(fifo, evs, e, mp, st, i, c) ==
    IF i >= Len(evs)
    THEN [st EXCEPT !.lbls = [j \in 1..Len(st.lbls) |->
                                 IF st.lbls[j] = -2 THEN -1 ELSE st.lbls[j]]]
    ELSE IF At(st.lbls, i) # -1 THEN ScanWith(fifo, evs, e, mp, st, i + 1, c)
    ELSE LET nb == NeighboursOf(evs, e, i)
             seeded == [lbls |-> SetAt(st.lbls, i, c), order |-> Append(st.order, i)]
         IN  IF Len(nb) < mp
             THEN ScanWith(fifo, evs, e, mp, [st EXCEPT !.lbls = SetAt(st.lbls, i, -2)],
                           i + 1, c)
             ELSE ScanWith(fifo, evs, e, mp,
                           ExpandWith(fifo, evs, e, mp, seeded, nb, {}, c),
                           i + 1, c + 1)

RunWith(fifo, evs, e, mp) ==
    ScanWith(fifo, evs, e, mp, [lbls |-> [j \in 1..Len(evs) |-> -1], order |-> <<>>], 0, 0)

LabelsWith(fifo, evs, e, mp) == RunWith(fifo, evs, e, mp).lbls

\* C19 as stated: there are inputs for which expanding the frontier as a
\* FIFO queue gives a final labels array different from the LIFO stack's
\* (looked for, once a run has finished, among all the inputs of the model).
C19_Original ==
    DbscanDone =>
        \E evs \in ClusterInputs \cup SharedBorderInputs :
            \E e \in EpsValues, mp \in MinPointsValues :
                LabelsWith(TRUE, evs, e, mp) # LabelsWith(FALSE, evs, e, mp)

\* C19: for every input the final labels array of the stack-based expansion
\* is the one a FIFO queue would give: an expansion labels everything
\* reachable from its seed with one id, in whatever order it visits.
C19_QueueGivesSameLabels ==
    DbscanDone =>
        /\ LabelsWith(FALSE, events, eps, min_points) = result.labels
        /\ LabelsWith(TRUE, events, eps, min_points) = result.labels

\* a finished run in which two clusters reach the same border event
C19_Witness ==
    /\ DbscanDone
    /\ Len(events) = 7
    /\ Len(result.clusters) = 2
    /\ \E j \in EventIdx :
           /\ ~IsCore(j)
           /\ \E c, d \in CoreNeighbours(j) :
                  At(result.labels, c) # At(result.labels, d)

(***************************************************************************)
(* DBSCAN: the order of a cluster's event_indices                          *)
(***************************************************************************)
\* the indices in the order the run gave them a cluster id: a seed when its
\* cluster is opened, then each member when it is popped and labelled
DiscoveryOrder == RunWith(FALSE, events, eps, min_points).order

\* the members of cluster c in discovery order
DiscoveredIn(c) ==
    LET In(j) == At(result.labels, j) = c
    IN  SelectSeq(DiscoveryOrder, In)

\* C20: each cluster's event_indices lists its members in discovery order:
\* the seed first, then the members in the order they were popped from the
\* work-list and labelled.
C20_IndicesInDiscoveryOrder ==
    DbscanDone =>
        /\ LabelsWith(FALSE, events, eps, min_points) = result.labels
        /\ \A j \in 1..Len(result.clusters) :
               result.clusters[j].event_indices = DiscoveredIn(result.clusters[j].id)

(***************************************************************************)
(* DBSCAN: the size of a cluster                                           *)
(***************************************************************************)
\* the members of the cluster at position j of the result
MembersOf(j) == Range(result.clusters[j].event_indices)

RECURSIVE CoreReachIn(_, _)
CoreReachIn(cores, S) ==
    LET T == S \cup {m \in cores : \E c \in S : m \in Within(c)}
    IN  IF T = S THEN S ELSE CoreReachIn(cores, T)

CoreReach(S) == CoreReachIn({j \in EventIdx : IsCore(j)}, S)

CoreLinked(a, b) == b \in CoreReach({a})

\* C22: two core events have the same cluster id exactly when a chain of core
\* events, each within eps of the next, links them; a core event is never noise.
C22_CoreChainsShareId ==
    DbscanDone =>
        LET cores == {j \in EventIdx : IsCore(j)}
        IN  \A a \in cores :
                /\ At(result.labels, a) >= 0
                /\ {b \in cores : At(result.labels, b) = At(result.labels, a)}
                       = CoreReachIn(cores, {a})

\* a finished run with two core events linked only through a third, and a
\* core event linked to neither
C22_Witness ==
    /\ DbscanDone
    /\ \E a, b, d \in {j \in EventIdx : IsCore(j)} :
           /\ b \notin Within(a)
           /\ At(events, a).lat # At(events, b).lat
           /\ CoreLinked(a, b)
           /\ At(result.labels, a) = At(result.labels, b)
           /\ ~CoreLinked(a, d)
           /\ At(result.labels, a) # At(result.labels, d)

(***************************************************************************)
(* DBSCAN: cluster ids                                                     *)
(***************************************************************************)
\* the lowest input index of a core event of the cluster at position j
LowestCore(j) == MinOf({c \in MembersOf(j) : IsCore(c)})

\* C23: the cluster ids are 0 .. num_clusters - 1 with no gap: the cluster at
\* position c has id c and is not empty, the ids used in labels are exactly
\* those, and the lowest-index core event of a cluster comes before that of
\* the next cluster in the input.
C23_IdsDenseInDiscoveryOrder ==
    DbscanDone =>
        /\ \A j \in 1..Len(result.clusters) :
               /\ result.clusters[j].id = j - 1
               /\ result.clusters[j].event_indices # <<>>
               /\ \E c \in MembersOf(j) : IsCore(c)
        /\ {l \in Range(result.labels) : l >= 0} = 0..(Len(result.clusters) - 1)
        /\ \A j \in 1..(Len(result.clusters) - 1) : LowestCore(j) < LowestCore(j + 1)

\* a finished run with two clusters, the first of which holds a non-core
\* event of lower index than its lowest core event
C23_Witness ==
    /\ DbscanDone
    /\ Len(result.clusters) >= 2
    /\ \E b \in MembersOf(1) : b < LowestCore(1)

(***************************************************************************)
(* K-means: the centroid update of one iteration                           *)
(***************************************************************************)
RECURSIVE SumLats(_)
SumLats(S) ==
    IF S = {} THEN 0
    ELSE LET j == CHOOSE m \in S : TRUE
         IN  At(events, j).lat + SumLats(S \ {j})

\* the events an iteration has just assigned to cluster c
AssignedTo(c) == {j \in EventIdx : At(labels', j) = c}

\* the centroid of c after the iteration is the mean latitude of its events
IsMeanOfAssigned(c) ==
    At(centroids', c).num * Cardinality(AssignedTo(c))
        = SumLats(AssignedTo(c)) * At(centroids', c).den

\* the centroid of c moved by no more than tolerance in the iteration
WithinTolerance(c) ==
    LET old == At(centroids, c)
        m == Cardinality(AssignedTo(c))
    IN  Abs(old.num * m - SumLats(AssignedTo(c)) * old.den) <= tolerance * old.den * m

\* C24: in every K-means iteration a cluster that received no event keeps its
\* centroid exactly, a cluster that received events gets the arithmetic mean
\* of their locations, and the iteration converges exactly when no cluster
\* that received events moved by more than tolerance, whatever clusters are
\* empty.
C24_EmptyClusterKeepsCentroid ==
    [][iter' = iter + 1 =>
          /\ Len(centroids') = Len(centroids)
          /\ \A c \in 0..(Len(centroids) - 1) :
                 IF AssignedTo(c) = {}
                 THEN At(centroids', c) = At(centroids, c)
                 ELSE IsMeanOfAssigned(c)
          /\ pc' = "kmeans_build" <=>
                 \A c \in 0..(Len(centroids) - 1) :
                     AssignedTo(c) # {} => WithinTolerance(c)]_vars

\* a run that converged with a cluster left empty, whose centroid is not at
\* latitude 0, next to a cluster whose centroid is a mean of distinct places
C24_Witness ==
    /\ pc = "kmeans_build"
    /\ iter >= 1
    /\ iter < max_iterations
    /\ \E c, d \in 0..(Len(centroids) - 1) :
           /\ \A j \in EventIdx : At(labels, j) # c
           /\ At(centroids, c).num # 0
           /\ At(centroids, d).den = 2
           /\ At(centroids, d).num % 2 = 1

(***************************************************************************)
(* K-means: seeding                                                        *)
(***************************************************************************)
\* min(k, n)
KEff == IF k < Len(events) THEN k ELSE Len(events)

\* floor(c * n / k_eff)
SeedIndex(c) == (c * Len(events)) \div KEff

\* the centroids at the locations of the seed events
SeedCentroids == [c \in 1..KEff |-> Q(At(events, SeedIndex(c - 1)).lat)]

\* a second run of the loop of KMeans::cluster from centroids cs: the
\* centroids and labels it ends with
RECURSIVE RunAgainFrom(_, _, _)
RunAgainFrom(cs, lbls, it) ==
    IF it >= max_iterations THEN [cs |-> cs, lbls |-> lbls]
    ELSE LET assigned == AssignLabels(cs)
             updated == UpdateCentroids(cs, assigned)
         IN  IF SomeShift(cs, assigned)
             THEN RunAgainFrom(updated, assigned, it + 1)
             ELSE [cs |-> updated, lbls |-> assigned]

RunAgain == RunAgainFrom(SeedCentroids, [j \in 1..Len(events) |-> 0], 0)

NearAnchor(a, j) == Abs(At(trajectory, j).lat - At(trajectory, a).lat) <= radius_m

\* C26: every stop pushed covers a contiguous run start_idx .. end_idx - 1 of
\* the sorted events, all within radius_m of the run's first event; the run
\* is maximal (it ends the trajectory or the next event is farther than
\* radius_m from the first); start and end are the timestamps of the run's
\* first and last events and event_count is its length.
C26_StopCoversMaximalRun ==
    [][stops' # stops =>
          LET s == start_idx
              e == start_idx'
              st == stops'[Len(stops')]
          IN  /\ stops' = Append(stops, st)
              /\ s < e /\ e <= Len(trajectory)
              /\ \A j \in s..(e - 1) : NearAnchor(s, j)
              /\ e < Len(trajectory) => ~NearAnchor(s, e)
              /\ st.start = At(trajectory, s).ts
              /\ st.end = At(trajectory, e - 1).ts
              /\ st.event_count = e - s]_vars

\* a returned stop of two events, the event after them within radius_m of
\* the second but farther than radius_m from the first
C26_Witness ==
    /\ StopsDone
    /\ \E s \in TrajIdx :
           /\ s + 2 < Len(trajectory)
           /\ NearAnchor(s, s + 1)
           /\ NearAnchor(s + 1, s + 2)
           /\ ~NearAnchor(s, s + 2)
           /\ \E j \in 1..Len(result) : result[j] = MakeStop(s, s + 2)

(***************************************************************************)
(* detect_stops: the scan as a whole                                       *)
(***************************************************************************)
\* the end (exclusive) of the maximal run of events from index s that are all
\* within radius_m of the event at s
RunEnd(s) ==
    CHOOSE e \in s..Len(trajectory) :
        /\ \A j \in s..(e - 1) : NearAnchor(s, j)
        /\ e < Len(trajectory) => ~NearAnchor(s, e)

\* the maximal within-radius run starting at s lasts less than min_duration_secs
RunTooShort(s) ==
    \/ RunEnd(s) = s
    \/ At(trajectory, RunEnd(s) - 1).ts - At(trajectory, s).ts < 1000 * min_duration_secs

\* the stops are in chronological order, one ending before the next starts
Chronological(sts) ==
    \A j \in 1..(Len(sts) - 1) : sts[j].start <= sts[j].end /\ sts[j].end <= sts[j + 1].start

\* C27 as stated, at the return: every event not inside an emitted stop has
\* a maximal within-radius run that lasts less than min_duration_secs.
C27_Original ==
    StopsDone => \A j \in TrajIdx : InStopWindow(j) \/ RunTooShort(j)

\* C27: detect_stops terminates; each pass of the scan either emits a stop
\* over start_idx .. start_idx' - 1 or finds the run from start_idx too short
\* and advances by one, so the index ranges of the stops are disjoint and
\* increasing and the stops are in chronological order; on a trajectory of
\* two or more events every event outside the emitted stops was an anchor
\* whose maximal within-radius run lasts less than min_duration_secs.
C27_ScanIsComplete ==
    /\ <>StopsDone
    /\ [][pc = "stops_scan" /\ pc' = "stops_scan" =>
              /\ start_idx' > start_idx
              /\ start_idx' <= Len(trajectory)
              /\ \/ /\ Len(stops') = Len(stops) + 1
                     /\ start_idx' = RunEnd(start_idx)
                     /\ ~RunTooShort(start_idx)
                 \/ /\ stops' = stops
                     /\ start_idx' = start_idx + 1
                     /\ RunTooShort(start_idx)]_vars
    /\ [](StopsDone =>
              /\ Chronological(result)
              /\ Len(result) = Len(StopWindows)
              /\ \A w \in 1..Len(result) :
                     result[w] = MakeStop(StopWindows[w].lo, StopWindows[w].hi + 1)
              /\ \A w \in 1..(Len(StopWindows) - 1) :
                     StopWindows[w].hi < StopWindows[w + 1].lo
              /\ Len(trajectory) >= 2 =>
                     \A j \in TrajIdx : InStopWindow(j) \/ RunTooShort(j))

\* a finished scan over four events that emitted a stop and left an event
\* before it and an event after it outside, each a failed anchor
C27_Witness ==
    /\ StopsDone
    /\ Len(trajectory) = 4
    /\ Len(result) = 1
    /\ ~InStopWindow(0) /\ RunTooShort(0)
    /\ InStopWindow(1) /\ InStopWindow(2)
    /\ ~InStopWindow(3) /\ RunTooShort(3)

(***************************************************************************)
(* detect_bursts: what is left outside the bursts                          *)
(***************************************************************************)
\* the event at position j is covered by no returned burst
Uncovered(j) == \A b \in 1..Len(result) : j \notin Covered(result[b])

\* the events with a timestamp in [t, t + window_secs), t the timestamp of
\* the event at position j
InWindowOf(j) ==
    {m \in 1..Len(events) :
        /\ events[j].ts <= events[m].ts
        /\ events[m].ts < events[j].ts + 1000 * window_secs}

\* every event outside the bursts has fewer than min_events events in its window
NoBurstLeft ==
    \A j \in 1..Len(events) : Uncovered(j) => Cardinality(InWindowOf(j)) < min_events

\* C28 as stated: after detect_bursts returns, every event not covered by a
\* returned burst has fewer than min_events events in the window of
\* window_secs starting at its own timestamp.
C28_Original == BurstsDone => NoBurstLeft

\* C28: with min_events >= 1, every event not covered by a returned burst has
\* fewer than min_events events (itself included) with timestamps in
\* [t, t + window_secs), t its own timestamp; with min_events = 0 no burst
\* is returned.
C28_GreedyComplete ==
    BurstsDone =>
        /\ min_events >= 1 => NoBurstLeft
        /\ min_events = 0 => result = <<>>

\* a burst followed, within window_secs of its start, by an event left
\* outside that is one event short of a burst of its own
C28_Witness ==
    /\ BurstsDone
    /\ min_events >= 2
    /\ Len(result) >= 1
    /\ \E j \in 1..Len(events) :
           /\ Uncovered(j)
           /\ Cardinality(InWindowOf(j)) = min_events - 1
           /\ result[1].end < events[j].ts
           /\ events[j].ts <= result[1].start + 1000 * window_secs

(***************************************************************************)
(* simplify: the depth of the recursion                                    *)
(***************************************************************************)
\* the number of events of the slice a call of douglas_peucker_indices is on
SliceLen(frame) == frame.hi - frame.lo + 1

\* C29: Trajectory.simplify terminates for every trajectory and every
\* epsilon: every recursive call of douglas_peucker_indices is on a slice
\* strictly shorter than its caller's, and the call stack is never exhausted.
C29_CallsOnShorterSlices ==
    /\ pc # "simplify_overflow"
    /\ \A d \in 2..Len(stack) : SliceLen(stack[d]) < SliceLen(stack[d - 1])

(***************************************************************************)
(* temporal_similarity of a collection with itself                         *)
(***************************************************************************)
\* C30: temporal_similarity is reflexive: for every non-empty collection A,
\* collections whose events share one timestamp included,
\* temporal_similarity(A, A) = 1.
C30_TemporalReflexive ==
    (TemporalDone /\ events # <<>> /\ events2 = events) =>
        /\ result.den > 0
        /\ result.num = result.den

====
